---- MODULE Spec2Model ----
(***************************************************************************)
(* Model of the OPT_Project data pipeline: the grid graph and the          *)
(* per-origin breadth-first distances (utils.py), the generator program    *)
(* and its OPL writers (opl_data_generator.py), the OPL decoders           *)
(* (opl_parser.py) and the attachment of a decoded solution to the cells   *)
(* (opl_solution_visualizer.py).                                           *)
(*                                                                         *)
(* Text is modelled as a sequence of one-character strings, so that the    *)
(* writers and the regular expressions of the decoders act on characters.  *)
(***************************************************************************)
EXTENDS Integers, Sequences, FiniteSets, TLC

VARIABLES
    \* ---- utils.py: the dataset and the breadth-first traversal
    grid_ids,         \* dataset_gpd['grid_id']: the cell ids, in dataset order
    has_species,      \* has_species[s][k]: row k is an origin of species s
    neighbors,        \* dataset_gpd['neighbors']: per row, the list of neighbor ids
    distances,        \* distances[s]: the column f"{short_spec}_distances" (<<>> = not yet created)
    starting_points,  \* the origins of the species being processed
    sp,               \* index of the species being processed
    oi,               \* index i of the origin being processed
    queue,            \* collections.deque of <<grid_id, distance>>
    visited,          \* the visited set of the running traversal
    dequeued,         \* history: the ids the running traversal took from its queue, in order
    pc,               \* position of add_neighbors_column / add_species_distance_column
    \* ---- opl_data_generator.py run as a program
    cache,            \* the file opl_model_data.json
    cache0,           \* the file opl_model_data.json when the program started
    datFiles,         \* datFiles[k]: the file opl_data/opl_model_data_n{NClosestRuns[k]}.dat
    gpc,              \* position of the program
    data,             \* the module-level global `data`
    mainData,         \* the local `data` of main()
    runIdx,           \* index in NClosestRuns of the file being generated
    cacheOps,         \* the operations made on opl_model_data.json, in order
    \* ---- opl_data_generator.py: write_species_distances
    sd_data,          \* species_distances_data: per species, per cell, the distance list
    n_closest,        \* the caller's K
    max_length,       \* the local max_length
    sIdx,             \* index of the species block being written
    cIdx,             \* index of the cell row being written
    sd_rows,          \* the padded_dists rows written so far, in order
    tpc,              \* position of write_species_distances
    \* ---- a model document written by the writers and read back by the decoders
    docSets,          \* the four sets to write: [name, array], in file order
    docCosts,         \* the Costs data: cell -> (action -> value), for the entries present
    fileText,         \* the text written to the file so far
    wIdx,             \* index in docSets of the next set to write
    decodedSets,      \* the results of parse_opl_set, per set of docSets
    decodedCosts,     \* the result of parse_opl_2d_array(content, 'Costs')
    cpc,              \* position of the writer/reader
    \* ---- the decoders applied to a solution or data text
    solDecls,         \* the declarations of the text, in file order
    solText,          \* the text
    request,          \* the call made: [decoder, name]
    decodeResult,     \* what the call returned
    dpc,              \* position of the reader
    \* ---- attach_solution_data_to_cells
    ordered_cells,    \* the cell dictionaries, in Cells order
    add_data,         \* the parsed arrays of the solution (or None)
    cor_data,
    con_data,
    con_o_data,
    species_origins,  \* species -> list of origin cells
    ai,               \* the index of the loop over the cells (1-based)
    apc,              \* position in the function
    \* ---- generate_opl_dat_file(data, n_closest)
    out_data,         \* the argument `data`, the document read from the cache
    out_n,            \* the argument n_closest
    out_prev,         \* the content of the output file when the function was called
    out_text,         \* the content of the output file
    out_idx,          \* the next write_opl_* call
    opc,              \* position in the function
    \* ---- get_neighbors(grid_id, all_grid_ids)
    nb_id,            \* the argument grid_id
    nb_all,           \* the argument all_grid_ids
    nb_coords,        \* <<col, row>> once the id is parsed
    nb_result,        \* the list returned
    npc,              \* position in the function
    \* ---- utils.py: the traversals of lines 46-62 run as concurrent processes
    par_queue,        \* par_queue[r]: the deque `queue` of run r
    par_visited,      \* par_visited[r]: the set `visited` of run r
    par_current,      \* par_current[r]: <<current_grid_id, current_dist>> of run r
    par_pc            \* par_pc[r]: position of run r in its loop

parVars == <<par_queue, par_visited, par_current, par_pc>>

bfsVars == <<grid_ids, has_species, neighbors, distances, starting_points,
             sp, oi, queue, visited, dequeued, pc>>

genVars == <<cache, cache0, datFiles, gpc, data, mainData, runIdx, cacheOps>>

truncVars == <<sd_data, n_closest, max_length, sIdx, cIdx, sd_rows, tpc>>

codecVars == <<docSets, docCosts, fileText, wIdx, decodedSets, decodedCosts, cpc>>

decodeVars == <<solDecls, solText, request, decodeResult, dpc>>

attachVars == <<ordered_cells, add_data, cor_data, con_data, con_o_data,
                species_origins, ai, apc>>

outVars == <<out_data, out_n, out_prev, out_text, out_idx, opc>>

nbVars == <<nb_id, nb_all, nb_coords, nb_result, npc>>

vars == <<bfsVars, genVars, truncVars, codecVars, decodeVars, attachVars, outVars, nbVars, parVars>>

----------------------------------------------------------------------------
(* The parts of the state a specification does not use stay idle *)

NoFile == [exists |-> FALSE, doc |-> "none", sections |-> 0]

\* for n in [2, 5, 11]
NClosestRuns == <<2, 5, 11>>

ParIdle ==
    /\ par_queue = <<>>
    /\ par_visited = <<>>
    /\ par_current = <<>>
    /\ par_pc = <<>>

BfsIdle ==
    /\ grid_ids = <<>>
    /\ has_species = <<>>
    /\ neighbors = <<>>
    /\ distances = <<>>
    /\ starting_points = <<>>
    /\ sp = 0
    /\ oi = 0
    /\ queue = <<>>
    /\ visited = {}
    /\ dequeued = <<>>
    /\ pc = "idle"

\* the state of the program's variables when the program is not running
GenIdle ==
    /\ cache = NoFile
    /\ cache0 = NoFile
    /\ datFiles = [k \in 1..Len(NClosestRuns) |-> NoFile]
    /\ gpc = "idle"
    /\ data = "unset"
    /\ mainData = "unset"
    /\ runIdx = 0
    /\ cacheOps = <<>>

TruncIdle ==
    /\ sd_data = <<>>
    /\ n_closest = 0
    /\ max_length = 0
    /\ sIdx = 0
    /\ cIdx = 0
    /\ sd_rows = <<>>
    /\ tpc = "idle"

CodecIdle ==
    /\ docSets = <<>>
    /\ docCosts = <<>>
    /\ fileText = <<>>
    /\ wIdx = 0
    /\ decodedSets = <<>>
    /\ decodedCosts = <<>>
    /\ cpc = "idle"

DecodeIdle ==
    /\ solDecls = <<>>
    /\ solText = <<>>
    /\ request = [decoder |-> "none", name |-> <<>>]
    /\ decodeResult = [kind |-> "none", val |-> <<>>]
    /\ dpc = "idle"

AttachIdle ==
    /\ ordered_cells = <<>>
    /\ add_data = [kind |-> "none", val |-> <<>>]
    /\ cor_data = [kind |-> "none", val |-> <<>>]
    /\ con_data = [kind |-> "none", val |-> <<>>]
    /\ con_o_data = [kind |-> "none", val |-> <<>>]
    /\ species_origins = <<>>
    /\ ai = 0
    /\ apc = "idle"

OutIdle ==
    /\ out_data = <<>>
    /\ out_n = 0
    /\ out_prev = <<>>
    /\ out_text = <<>>
    /\ out_idx = 0
    /\ opc = "idle"

NbIdle ==
    /\ nb_id = <<>>
    /\ nb_all = {}
    /\ nb_coords = <<>>
    /\ nb_result = <<>>
    /\ npc = "idle"

----------------------------------------------------------------------------
(* Sets and lists *)

\* the elements of a list
SeqRange(s) == {s[k] : k \in 1..Len(s)}

RECURSIVE SubsetsUpTo(_, _)
\* the subsets of S with at most k elements
SubsetsUpTo(S, k) ==
    IF k = 0 THEN {{}}
    ELSE LET smaller == SubsetsUpTo(S, k - 1)
         IN smaller \cup {T \cup {x} : T \in smaller, x \in S}

----------------------------------------------------------------------------
(* Characters and integers as text *)

DigitChars == <<"0", "1", "2", "3", "4", "5", "6", "7", "8", "9">>

IsDigit(ch) == \E d \in 1..10 : DigitChars[d] = ch

DigitVal(ch) == (CHOOSE d \in 1..10 : DigitChars[d] = ch) - 1

IsSpace(ch) == ch \in {" ", "\n", "\t"}

RECURSIVE FormatNat(_)
\* str(n) for n >= 0
FormatNat(n) ==
    IF n < 10 THEN <<DigitChars[n + 1]>>
    ELSE FormatNat(n \div 10) \o <<DigitChars[(n % 10) + 1]>>

\* f"{n}" for an int
FormatInt(n) == IF n < 0 THEN <<"-">> \o FormatNat(-n) ELSE FormatNat(n)

RECURSIVE DigitsValue(_, _)
DigitsValue(s, acc) ==
    IF s = <<>> THEN acc
    ELSE DigitsValue(Tail(s), 10 * acc + DigitVal(Head(s)))

AllDigits(s) == s # <<>> /\ \A k \in 1..Len(s) : IsDigit(s[k])

\* The outcome of a call that may raise: ok, and the value when ok
Ok(v) == [ok |-> TRUE, val |-> v]

Raised == [ok |-> FALSE, val |-> "ValueError"]

\* s.strip(): s without the spaces at its two ends
StripSpaces(s) ==
    LET solid == {k \in 1..Len(s) : ~IsSpace(s[k])}
    IN IF solid = {} THEN <<>>
       ELSE SubSeq(s, CHOOSE a \in solid : \A b \in solid : a <= b,
                      CHOOSE a \in solid : \A b \in solid : b <= a)

\* int(s): spaces at the ends are dropped, then an optional sign and decimal
\* digits; anything else raises ValueError
ParseInt(s) ==
    LET t == StripSpaces(s)
    IN IF t # <<>> /\ Head(t) \in {"-", "+"}
       THEN IF AllDigits(Tail(t))
            THEN Ok((IF Head(t) = "-" THEN -1 ELSE 1) * DigitsValue(Tail(t), 0))
            ELSE Raised
       ELSE IF AllDigits(t) THEN Ok(DigitsValue(t, 0)) ELSE Raised

RECURSIVE Split(_, _)
\* s.split(sep) for a one-character separator
Split(s, sep) ==
    IF \A k \in 1..Len(s) : s[k] # sep THEN <<s>>
    ELSE LET p == CHOOSE k \in 1..Len(s) :
                      s[k] = sep /\ \A j \in 1..(k - 1) : s[j] # sep
         IN <<SubSeq(s, 1, p - 1)>> \o Split(SubSeq(s, p + 1, Len(s)), sep)

----------------------------------------------------------------------------
(* utils.py: get_neighbors, add_neighbors_column *)

CellPrefix == <<"c", "e", "l", "l">>

\* f"cell_{c}_{r}"
FormatCellId(c, r) == CellPrefix \o <<"_">> \o FormatInt(c) \o <<"_">> \o FormatInt(r)

\* row, col = map(int, ...): the two fields taken in the other order
ParseCellIdSwapped(grid_id) ==
    LET fields == Tail(Split(grid_id, "_"))
    IN IF Len(fields) # 2 THEN Raised
       ELSE IF ~ParseInt(fields[1]).ok \/ ~ParseInt(fields[2]).ok
            THEN Raised
            ELSE Ok(<<ParseInt(fields[2]).val, ParseInt(fields[1]).val>>)

\* col, row = map(int, grid_id.split('_')[1:])
ParseCellId(grid_id) ==
    LET fields == Tail(Split(grid_id, "_"))
    IN IF Len(fields) # 2 THEN Raised
       ELSE IF ~ParseInt(fields[1]).ok \/ ~ParseInt(fields[2]).ok
            THEN Raised
            ELSE Ok(<<ParseInt(fields[1]).val, ParseInt(fields[2]).val>>)

\* the candidate list with the first offset two rows up instead of one
PotentialNeighborsCoordsFar(col, row) ==
    << <<row - 2, col>>, <<row + 1, col>>, <<row, col - 1>>, <<row, col + 1>>,
       <<row - 1, col - 1>>, <<row + 1, col + 1>>, <<row + 1, col - 1>>,
       <<row - 1, col + 1>> >>

\* the candidate list in clockwise order from up
PotentialNeighborsCoordsClockwise(col, row) ==
    << <<row - 1, col>>, <<row - 1, col + 1>>, <<row, col + 1>>, <<row + 1, col + 1>>,
       <<row + 1, col>>, <<row + 1, col - 1>>, <<row, col - 1>>,
       <<row - 1, col - 1>> >>

\* potential_neighbors_coords, as <<r, c>> pairs in the order of the source
PotentialNeighborsCoords(col, row) ==
    << <<row - 1, col>>, <<row + 1, col>>, <<row, col - 1>>, <<row, col + 1>>,
       <<row - 1, col - 1>>, <<row + 1, col + 1>>, <<row + 1, col - 1>>,
       <<row - 1, col + 1>> >>

get_neighbors(grid_id, all_grid_ids) ==
    LET cr == ParseCellId(grid_id)
        cand == PotentialNeighborsCoords(cr.val[1], cr.val[2])
        ids == [k \in 1..Len(cand) |-> FormatCellId(cand[k][2], cand[k][1])]
        keep(id) == id \in all_grid_ids
    IN IF ~cr.ok THEN Raised ELSE Ok(SelectSeq(ids, keep))

\* dataset_gpd['grid_id'].apply(lambda x: get_neighbors(x, all_grid_ids))
add_neighbors_column(ids) ==
    [k \in 1..Len(ids) |-> get_neighbors(ids[k], SeqRange(ids)).val]

----------------------------------------------------------------------------
(* utils.py: add_species_distance_column *)

\* the species list of the loop at utils.py:39
SpeciesNames ==
    <<"atelerix_algirus", "martes_martes", "eliomys_quercinus", "oryctolagus_cuniculus">>

NumSpecies == Len(SpeciesNames)

\* the first row whose grid_id is id (dataset_gpd['grid_id'] == id, then .iloc[0] / .index[0])
RowOf(id) == CHOOSE k \in 1..Len(grid_ids) :
                 grid_ids[k] = id /\ \A j \in 1..(k - 1) : grid_ids[j] # id

\* the flagged ids, last row first
StartingPointsLastFirst(s) ==
    LET flagged(id) == has_species[s][RowOf(id)]
        inOrder == SelectSeq(grid_ids, flagged)
    IN [k \in 1..Len(inOrder) |-> inOrder[Len(inOrder) + 1 - k]]

\* dataset_gpd.loc[dataset_gpd[f"has_{species}"], 'grid_id'].tolist()
StartingPoints(s) ==
    LET flagged(id) == has_species[s][RowOf(id)]
    IN SelectSeq(grid_ids, flagged)

\* [[0 for _ in range(len(starting_points))] for _ in range(len(dataset_gpd))]
InitialDistanceColumn(nOrigins, nRows) ==
    [k \in 1..nRows |-> [j \in 1..nOrigins |-> 0]]

\* new_dist = current_dist + 2: a neighbor is put two hops further
NewDistByTwo(current_dist) == current_dist + 2

\* new_dist = current_dist + 1
NewDist(current_dist) == current_dist + 1

\* the loop left by a `break` after the first queue.append
VisitFirstNeighbor(nbrs, current_dist, q, vis) ==
    LET fresh == {k \in 1..Len(nbrs) : nbrs[k] \notin vis}
        first == CHOOSE k \in fresh : \A j \in fresh : k <= j
    IN IF fresh = {} THEN <<q, vis>>
       ELSE <<Append(q, <<nbrs[first], NewDist(current_dist)>>), vis \cup {nbrs[first]}>>

RECURSIVE VisitNeighborsTwice(_, _, _, _)
\* the loop with queue.append executed twice for every new neighbor
VisitNeighborsTwice(nbrs, current_dist, q, vis) ==
    IF nbrs = <<>> THEN <<q, vis>>
    ELSE IF Head(nbrs) \notin vis
         THEN VisitNeighborsTwice(Tail(nbrs), current_dist,
                                  q \o << <<Head(nbrs), NewDist(current_dist)>>,
                                          <<Head(nbrs), NewDist(current_dist)>> >>,
                                  vis \cup {Head(nbrs)})
         ELSE VisitNeighborsTwice(Tail(nbrs), current_dist, q, vis)

RECURSIVE VisitNeighbors(_, _, _, _)
\* the loop over the neighbors of the dequeued cell (utils.py:58-62):
\* returns <<queue, visited>> after the loop
VisitNeighbors(nbrs, current_dist, q, vis) ==
    IF nbrs = <<>> THEN <<q, vis>>
    ELSE IF Head(nbrs) \notin vis
         THEN VisitNeighbors(Tail(nbrs), current_dist,
                             Append(q, <<Head(nbrs), NewDist(current_dist)>>),
                             vis \cup {Head(nbrs)})
         ELSE VisitNeighbors(Tail(nbrs), current_dist, q, vis)

\* queue.pop(): the traversal takes the newest entry instead of the oldest
PopRight(q) == <<q[Len(q)], SubSeq(q, 1, Len(q) - 1)>>

\* queue.popleft()
PopLeft(q) == <<Head(q), Tail(q)>>

\* add_neighbors_column(dataset_gpd), called before add_species_distance_column
AddNeighborsColumn ==
    /\ pc = "neighbors"
    /\ neighbors' = add_neighbors_column(grid_ids)
    /\ sp' = 1
    /\ pc' = "species"
    /\ UNCHANGED <<grid_ids, has_species, distances, starting_points, oi, queue, visited,
                   dequeued>>
    /\ UNCHANGED <<genVars, truncVars, codecVars, decodeVars, attachVars, outVars, nbVars, parVars>>

\* head of the loop over the species: create the distance column
SpeciesLoop ==
    /\ pc = "species"
    /\ IF sp > NumSpecies
       THEN /\ pc' = "done"
            /\ UNCHANGED <<distances, starting_points, oi>>
       ELSE /\ starting_points' = StartingPoints(sp)
            /\ distances' = [distances EXCEPT ![sp] =
                   InitialDistanceColumn(Len(StartingPoints(sp)), Len(grid_ids))]
            /\ oi' = 1
            /\ pc' = "origin"
    /\ UNCHANGED <<grid_ids, has_species, neighbors, sp, queue, visited, dequeued>>
    /\ UNCHANGED <<genVars, truncVars, codecVars, decodeVars, attachVars, outVars, nbVars, parVars>>

\* head of the loop over the origins: start one traversal
OriginLoop ==
    /\ pc = "origin"
    /\ IF oi > Len(starting_points)
       THEN /\ sp' = sp + 1
            /\ pc' = "species"
            /\ UNCHANGED <<queue, visited, dequeued>>
       ELSE /\ queue' = << <<starting_points[oi], 0>> >>
            /\ visited' = {starting_points[oi]}
            /\ dequeued' = <<>>
            /\ pc' = "bfs"
            /\ UNCHANGED sp
    /\ UNCHANGED <<grid_ids, has_species, neighbors, distances, starting_points, oi>>
    /\ UNCHANGED <<genVars, truncVars, codecVars, decodeVars, attachVars, outVars, nbVars, parVars>>

\* one iteration of `while queue:`
BFSStep ==
    /\ pc = "bfs"
    /\ queue # <<>>
    /\ LET current == PopLeft(queue)[1]
           rest == PopLeft(queue)[2]
           current_grid_id == current[1]
           current_dist == current[2]
           row == RowOf(current_grid_id)
           after == VisitNeighbors(neighbors[row], current_dist, rest, visited)
       IN /\ distances' = [distances EXCEPT ![sp][row][oi] = current_dist]
          /\ queue' = after[1]
          /\ visited' = after[2]
          /\ dequeued' = Append(dequeued, current_grid_id)
    /\ UNCHANGED <<grid_ids, has_species, neighbors, starting_points, sp, oi, pc>>
    /\ UNCHANGED <<genVars, truncVars, codecVars, decodeVars, attachVars, outVars, nbVars, parVars>>

\* `while queue:` ends: next origin
BFSExit ==
    /\ pc = "bfs"
    /\ queue = <<>>
    /\ oi' = oi + 1
    /\ pc' = "origin"
    /\ UNCHANGED <<grid_ids, has_species, neighbors, distances, starting_points,
                   sp, queue, visited, dequeued>>
    /\ UNCHANGED <<genVars, truncVars, codecVars, decodeVars, attachVars, outVars, nbVars, parVars>>

----------------------------------------------------------------------------
(* opl_data_generator.py: write_species_distances *)

\* padding_value=1e6
PaddingValue == 1000000

RECURSIVE InsertByKeyUnstable(_, _, _)
\* an unstable insertion: among equal keys the later index comes first
InsertByKeyUnstable(sorted, i, key) ==
    IF sorted = <<>> THEN <<i>>
    ELSE IF key[Head(sorted)] < key[i]
         THEN <<Head(sorted)>> \o InsertByKeyUnstable(Tail(sorted), i, key)
         ELSE <<i>> \o sorted

RECURSIVE InsertByKey(_, _, _)
\* insert index i into the list of indexes `sorted` (ordered by key), after
\* every index whose key is not greater: the stable order of sorted()
InsertByKey(sorted, i, key) ==
    IF sorted = <<>> THEN <<i>>
    ELSE IF key[Head(sorted)] <= key[i]
         THEN <<Head(sorted)>> \o InsertByKey(Tail(sorted), i, key)
         ELSE <<i>> \o sorted

RECURSIVE SortedPrefix(_, _)
\* sorted(range(k), key=lambda i: dist_list[i])
SortedPrefix(dist_list, k) ==
    IF k = 0 THEN <<>> ELSE InsertByKey(SortedPrefix(dist_list, k - 1), k, dist_list)

\* sorted(range(len(dist_list)), key=lambda i: dist_list[i])
SortedIndices(dist_list) == SortedPrefix(dist_list, Len(dist_list))

\* lst[:n + 1]: a slice one element too long
TakeOneMore(lst, n) == SubSeq(lst, 1, IF n + 1 < Len(lst) THEN n + 1 ELSE Len(lst))

\* lst[:n] for n >= 0
Take(lst, n) == SubSeq(lst, 1, IF n < Len(lst) THEN n ELSE Len(lst))

\* keep_indices = set(sorted(...)[:n_closest])  (indexes from 1)
KeepIndices(dist_list, k) == SeqRange(Take(SortedIndices(dist_list), k))

\* padded_dists built over range(len(dist_list)): the row of a cell is as long
\* as the cell's own list
PaddedDistsOwnLength(dist_list, k, maxlen) ==
    [idx \in 1..Len(dist_list) |->
        IF idx \in KeepIndices(dist_list, k) THEN dist_list[idx] ELSE PaddingValue]

\* padded_dists of one cell
PaddedDists(dist_list, k, maxlen) ==
    [idx \in 1..maxlen |->
        IF idx <= Len(dist_list) /\ idx \in KeepIndices(dist_list, k)
        THEN dist_list[idx]
        ELSE PaddingValue]

RECURSIVE MaxOf(_)
MaxOf(S) == IF S = {} THEN 0
            ELSE LET x == CHOOSE y \in S : TRUE
                     m == MaxOf(S \ {x})
                 IN IF x > m THEN x ELSE m

\* the loop that finds max_length (opl_data_generator.py:150-154)
MaxLength(sdd) ==
    MaxOf(UNION {{Len(sdd[s].cells[c].dist) : c \in 1..Len(sdd[s].cells)} :
                     s \in 1..Len(sdd)})

\* write_species_distances: the search of the maximum length
FindMaxLength ==
    /\ tpc = "max_length"
    /\ max_length' = MaxLength(sd_data)
    /\ sIdx' = 1
    /\ cIdx' = 1
    /\ tpc' = "rows"
    /\ UNCHANGED <<sd_data, n_closest, sd_rows>>
    /\ UNCHANGED <<bfsVars, genVars, codecVars, decodeVars, attachVars, outVars, nbVars, parVars>>

\* write_species_distances: one iteration of the loop over the cells of a species
WriteRow ==
    /\ tpc = "rows"
    /\ sIdx <= Len(sd_data)
    /\ cIdx <= Len(sd_data[sIdx].cells)
    /\ sd_rows' = Append(sd_rows,
          [species |-> sIdx, cell |-> cIdx,
           row |-> PaddedDists(sd_data[sIdx].cells[cIdx].dist, n_closest, max_length)])
    /\ cIdx' = cIdx + 1
    /\ UNCHANGED <<sd_data, n_closest, max_length, sIdx, tpc>>
    /\ UNCHANGED <<bfsVars, genVars, codecVars, decodeVars, attachVars, outVars, nbVars, parVars>>

\* write_species_distances: the end of a species block
CloseBlock ==
    /\ tpc = "rows"
    /\ sIdx <= Len(sd_data)
    /\ cIdx > Len(sd_data[sIdx].cells)
    /\ sIdx' = sIdx + 1
    /\ cIdx' = 1
    /\ UNCHANGED <<sd_data, n_closest, max_length, sd_rows, tpc>>
    /\ UNCHANGED <<bfsVars, genVars, codecVars, decodeVars, attachVars, outVars, nbVars, parVars>>

\* write_species_distances: the closing bracket
CloseDistances ==
    /\ tpc = "rows"
    /\ sIdx > Len(sd_data)
    /\ tpc' = "done"
    /\ UNCHANGED <<sd_data, n_closest, max_length, sIdx, cIdx, sd_rows>>
    /\ UNCHANGED <<bfsVars, genVars, codecVars, decodeVars, attachVars, outVars, nbVars, parVars>>

\* the longest distance list of the inputs
MaxLen == 3

\* the largest hop distance of the inputs
MaxDist == 2

\* the largest K of the inputs
MaxK == 3

\* the lists of length at most n over 0..MaxDist
RECURSIVE ListsUpTo(_)
ListsUpTo(n) ==
    IF n = 0 THEN {<<>>}
    ELSE LET shorter == ListsUpTo(n - 1)
         IN shorter \cup {Append(l, d) : l \in shorter, d \in 0..MaxDist}

\* a list of length m for the second species: distances falling from the
\* first origin to the last, so that the nearest origins have the highest indexes
FallingList(m) == [j \in 1..m |-> (m - j) % (MaxDist + 1)]

\* The inputs: two species with one cell each; the first species' list is any
\* list, the second's any length; K from 0 to MaxK.
InitTrunc ==
    /\ \E l1 \in ListsUpTo(MaxLen), m \in 0..MaxLen :
          sd_data = << [species |-> "atelerix",
                        cells |-> << [cell |-> FormatCellId(0, 0), dist |-> l1] >>],
                       [species |-> "martes",
                        cells |-> << [cell |-> FormatCellId(0, 0), dist |-> FallingList(m)] >>] >>
    /\ n_closest \in 0..MaxK
    /\ max_length = 0
    /\ sIdx = 0
    /\ cIdx = 0
    /\ sd_rows = <<>>
    /\ tpc = "max_length"
    /\ BfsIdle
    /\ GenIdle
    /\ CodecIdle
    /\ DecodeIdle
    /\ AttachIdle
    /\ OutIdle
    /\ NbIdle
    /\ ParIdle

NextTrunc ==
    \/ FindMaxLength
    \/ WriteRow
    \/ CloseBlock
    \/ CloseDistances

SpecTrunc == InitTrunc /\ [][NextTrunc]_vars

\* the distance list a written row comes from
ListOf(r) == sd_data[r.species].cells[r.cell].dist

\* index i of list L is among the K smallest values of L, a tie going to the
\* lower index: fewer than K indexes come before it
AmongSmallest(L, i, K) ==
    Cardinality({j \in 1..Len(L) : L[j] < L[i] \/ (L[j] = L[i] /\ j < i)}) < K

\* the positions of a written row that hold a distance of the list
KeptPositions(r) == {i \in 1..Len(r.row) : r.row[i] # PaddingValue}

\* C4: every written row keeps exactly the K smallest values of its list (all
\* of them when the list has fewer than K), a tie going to the lower origin
\* index; a kept value stands at its own index, and every other position,
\* also those at or beyond the list's length, holds the padding sentinel.
C4_KeepsKSmallest ==
    \A n \in 1..Len(sd_rows) :
        LET r == sd_rows[n]
            L == ListOf(r)
        IN /\ \A i \in 1..Len(r.row) :
                  r.row[i] = IF i <= Len(L) /\ AmongSmallest(L, i, n_closest)
                             THEN L[i] ELSE PaddingValue
           /\ Cardinality(KeptPositions(r)) =
                  IF Len(L) < n_closest THEN Len(L) ELSE n_closest

\* C4 witness: a written row of a list longer than K with a tie at the K-th
\* smallest value, where the lower index was kept and the higher one padded,
\* and with padding beyond the list's length.
C4_Witness ==
    \E n \in 1..Len(sd_rows) :
        LET r == sd_rows[n]
            L == ListOf(r)
        IN /\ n_closest >= 1
           /\ Len(L) > n_closest
           /\ Len(r.row) > Len(L)
           /\ \E i, j \in 1..Len(L) :
                 /\ i < j
                 /\ L[i] = L[j]
                 /\ r.row[i] = L[i]
                 /\ r.row[j] = PaddingValue

\* C5 (as claimed): in every written row, when the list has at least K values
\* exactly K entries hold a distance and the others the sentinel; when the
\* list has at most K values no entry of the row is the sentinel.
C5_TruncationAsClaimed ==
    \A n \in 1..Len(sd_rows) :
        LET r == sd_rows[n]
            L == ListOf(r)
        IN /\ Len(L) >= n_closest => Cardinality(KeptPositions(r)) = n_closest
           /\ Len(L) <= n_closest => \A i \in 1..Len(r.row) : r.row[i] # PaddingValue

\* C5 (amended): in every written row, when the list has at least K values
\* exactly K entries hold a distance of the list, at its own index, and the
\* others the sentinel; when the list has at most K values, no position of
\* the list itself holds the sentinel: the sentinel fills exactly the
\* positions from the list's length to the maximum length.
C5_Truncation ==
    \A n \in 1..Len(sd_rows) :
        LET r == sd_rows[n]
            L == ListOf(r)
        IN /\ Len(r.row) = max_length
           /\ \A i \in KeptPositions(r) : i <= Len(L) /\ r.row[i] = L[i]
           /\ Len(L) >= n_closest => Cardinality(KeptPositions(r)) = n_closest
           /\ Len(L) <= n_closest => KeptPositions(r) = 1..Len(L)

\* C5 witness: two written rows, one of a list with more than K values that
\* kept K of them, one of a list with fewer than K values, shorter than the
\* maximum length, that kept all its values and is padded to the maximum length.
C5_Witness ==
    /\ n_closest >= 1
    /\ \E n \in 1..Len(sd_rows) :
          /\ Len(ListOf(sd_rows[n])) > n_closest
          /\ Cardinality(KeptPositions(sd_rows[n])) = n_closest
    /\ \E n \in 1..Len(sd_rows) :
          /\ Len(ListOf(sd_rows[n])) >= 1
          /\ Len(ListOf(sd_rows[n])) < n_closest
          /\ Len(sd_rows[n].row) > Len(ListOf(sd_rows[n]))
          /\ KeptPositions(sd_rows[n]) = 1..Len(ListOf(sd_rows[n]))

----------------------------------------------------------------------------
(* Text helpers for the decoders' regular expressions *)

\* the least element of a non-empty set of numbers
MinOf(S) == CHOOSE x \in S : \A y \in S : x <= y

\* the characters of text from position p on
From(text, p) == SubSeq(text, p, Len(text))

\* the literal lit stands in text at position p
MatchLit(text, p, lit) ==
    /\ p + Len(lit) - 1 <= Len(text)
    /\ \A k \in 1..Len(lit) : text[p + k - 1] = lit[k]

\* \s* from position p: the position of the first character that is no space
SkipSpaces(text, p) ==
    LET stops == {q \in p..Len(text) : ~IsSpace(text[q])}
    IN IF stops = {} THEN Len(text) + 1 ELSE MinOf(stops)

\* name\s*=\s*<opener> matched at position p: the position after the opener, or 0
DeclOpen(text, p, name, opener) ==
    IF ~MatchLit(text, p, name) THEN 0
    ELSE LET eq == SkipSpaces(text, p + Len(name))
         IN IF eq > Len(text) \/ text[eq] # "=" THEN 0
            ELSE LET op == SkipSpaces(text, eq + 1)
                 IN IF op > Len(text) \/ text[op] # opener THEN 0 ELSE op + 1

\* re.search(rf'{name}\s*=\s*\[(.*?)\];', content, re.DOTALL): group 1 of the
\* leftmost match, or no match
SearchArrayDecl(content, name) ==
    LET starts == {p \in 1..Len(content) : DeclOpen(content, p, name, "[") > 0}
    IN IF starts = {} THEN [found |-> FALSE, body |-> <<>>]
       ELSE LET a == DeclOpen(content, MinOf(starts), name, "[")
                ends == {q \in a..(Len(content) - 1) :
                            content[q] = "]" /\ content[q + 1] = ";"}
            IN IF ends = {} THEN [found |-> FALSE, body |-> <<>>]
               ELSE [found |-> TRUE, body |-> SubSeq(content, a, MinOf(ends) - 1)]

\* the same search with a greedy body, (.*) in place of (.*?): the body runs
\* to the last closing brace of the text
SearchSetDeclGreedy(content, name) ==
    LET starts == {p \in 1..Len(content) : DeclOpen(content, p, name, "{") > 0}
    IN IF starts = {} THEN [found |-> FALSE, body |-> <<>>]
       ELSE LET a == DeclOpen(content, MinOf(starts), name, "{")
                ends == {q \in a..(Len(content) - 1) :
                            content[q] = "}" /\ content[q + 1] = ";"}
            IN IF ends = {} THEN [found |-> FALSE, body |-> <<>>]
               ELSE [found |-> TRUE,
                     body |-> SubSeq(content, a,
                                     (CHOOSE x \in ends : \A y \in ends : y <= x) - 1)]

\* re.search(rf'{name}\s*=\s*\{{\s*(.*?)\s*\}};', content, re.DOTALL): group 1
\* of the leftmost match, or no match
SearchSetDecl(content, name) ==
    LET starts == {p \in 1..Len(content) : DeclOpen(content, p, name, "{") > 0}
    IN IF starts = {} THEN [found |-> FALSE, body |-> <<>>]
       ELSE LET a == SkipSpaces(content, DeclOpen(content, MinOf(starts), name, "{"))
                closes(q) == LET r == SkipSpaces(content, q)
                             IN r < Len(content) /\ content[r] = "}" /\ content[r + 1] = ";"
                ends == {q \in a..Len(content) : closes(q)}
            IN IF ends = {} THEN [found |-> FALSE, body |-> <<>>]
               ELSE [found |-> TRUE, body |-> SubSeq(content, a, MinOf(ends) - 1)]

\* the position of the first ch in str, or 0
IndexOf(str, ch) ==
    LET at == {k \in 1..Len(str) : str[k] = ch}
    IN IF at = {} THEN 0 ELSE MinOf(at)

RECURSIVE FindQuoted(_)
\* re.findall(r'"([^"]+)"', str)
FindQuoted(str) ==
    LET i == IndexOf(str, "\"")
    IN IF i = 0 THEN <<>>
       ELSE LET rest == From(str, i + 1)
                j == IndexOf(rest, "\"")
            IN IF j = 0 THEN <<>>
               ELSE IF j = 1 THEN FindQuoted(rest)
               ELSE <<SubSeq(rest, 1, j - 1)>> \o FindQuoted(From(rest, j + 1))

\* the length of the longest prefix of str made of digits and spaces
DigitSpaceRun(str) ==
    LET stops == {k \in 1..Len(str) : ~(IsDigit(str[k]) \/ IsSpace(str[k]))}
    IN IF stops = {} THEN Len(str) ELSE MinOf(stops) - 1

\* \[([\d\s]+)\] matched at the start of str: [ok, the group, the length of the match]
RowAt(str) ==
    IF str = <<>> \/ Head(str) # "[" THEN [ok |-> FALSE, group |-> <<>>, len |-> 0]
    ELSE LET n == DigitSpaceRun(Tail(str))
         IN IF n >= 1 /\ n + 2 <= Len(str) /\ str[n + 2] = "]"
            THEN [ok |-> TRUE, group |-> SubSeq(str, 2, n + 1), len |-> n + 2]
            ELSE [ok |-> FALSE, group |-> <<>>, len |-> 0]

RECURSIVE FindRows(_)
\* re.findall(r'\[([\d\s]+)\]', str)
FindRows(str) ==
    LET i == IndexOf(str, "[")
    IN IF i = 0 THEN <<>>
       ELSE LET m == RowAt(From(str, i))
            IN IF m.ok THEN <<m.group>> \o FindRows(From(str, i + m.len))
               ELSE FindRows(From(str, i + 1))

RECURSIVE FindSetsNonEmpty(_)
\* re.findall(r'\{([^}]+)\}', str): a set needs at least one character
FindSetsNonEmpty(str) ==
    LET i == IndexOf(str, "{")
    IN IF i = 0 THEN <<>>
       ELSE LET rest == From(str, i + 1)
                j == IndexOf(rest, "}")
            IN IF j = 0 THEN <<>>
               ELSE IF j = 1 THEN FindSetsNonEmpty(rest)
               ELSE <<SubSeq(rest, 1, j - 1)>> \o FindSetsNonEmpty(From(rest, j + 1))

RECURSIVE FindSets(_)
\* re.findall(r'\{([^}]*)\}', str)
FindSets(str) ==
    LET i == IndexOf(str, "{")
    IN IF i = 0 THEN <<>>
       ELSE LET rest == From(str, i + 1)
                j == IndexOf(rest, "}")
            IN IF j = 0 THEN <<>>
               ELSE <<SubSeq(rest, 1, j - 1)>> \o FindSets(From(rest, j + 1))

RECURSIVE SplitSpaces(_)
\* str.split(): the maximal runs of characters that are no spaces
SplitSpaces(str) ==
    LET b == SkipSpaces(str, 1)
    IN IF b > Len(str) THEN <<>>
       ELSE LET stops == {q \in b..Len(str) : IsSpace(str[q])}
                e == IF stops = {} THEN Len(str) + 1 ELSE MinOf(stops)
            IN <<SubSeq(str, b, e - 1)>> \o SplitSpaces(From(str, e))

\* [int(x) for x in str.split()]: raises when a token is no integer
IntList(str) ==
    LET tokens == SplitSpaces(str)
    IN IF \E k \in 1..Len(tokens) : ~ParseInt(tokens[k]).ok THEN Raised
       ELSE Ok([k \in 1..Len(tokens) |-> ParseInt(tokens[k]).val])

\* re.sub(r'\s+', ' ', str): one space for every run of spaces
CollapseSpaces(str) ==
    LET first(k) == ~IsSpace(str[k]) \/ k = 1 \/ ~IsSpace(str[k - 1])
        kept == SelectSeq([k \in 1..Len(str) |-> k], first)
    IN [i \in 1..Len(kept) |-> IF IsSpace(str[kept[i]]) THEN " " ELSE str[kept[i]]]

\* the number of rows of a cell block of the 3-D structure (opl_parser.py:138)
RowsPerCell == 4

RECURSIVE BlockRows(_, _, _)
\* (\s*\[([0-9\s]+)\]) matched k times from position p of str:
\* [ok, the groups, the position after the last row]
BlockRows(str, p, k) ==
    IF k = 0 THEN [ok |-> TRUE, groups |-> <<>>, next |-> p]
    ELSE LET m == RowAt(From(str, SkipSpaces(str, p)))
         IN IF ~m.ok THEN [ok |-> FALSE, groups |-> <<>>, next |-> 0]
            ELSE LET more == BlockRows(str, SkipSpaces(str, p) + m.len, k - 1)
                 IN [ok |-> more.ok, groups |-> <<m.group>> \o more.groups,
                     next |-> more.next]

\* a cell pattern of three rows, matched at the start of str
CellBlockAtThreeRows(str) ==
    IF str = <<>> \/ Head(str) # "[" THEN [ok |-> FALSE, groups |-> <<>>, len |-> 0]
    ELSE LET rows == BlockRows(str, 2, 3)
             close == SkipSpaces(str, rows.next)
         IN IF rows.ok /\ close <= Len(str) /\ str[close] = "]"
            THEN [ok |-> TRUE, groups |-> rows.groups, len |-> close]
            ELSE [ok |-> FALSE, groups |-> <<>>, len |-> 0]

\* cell_pattern matched at the start of str: [ok, the four groups, the length]
CellBlockAt(str) ==
    IF str = <<>> \/ Head(str) # "[" THEN [ok |-> FALSE, groups |-> <<>>, len |-> 0]
    ELSE LET rows == BlockRows(str, 2, RowsPerCell)
             close == SkipSpaces(str, rows.next)
         IN IF rows.ok /\ close <= Len(str) /\ str[close] = "]"
            THEN [ok |-> TRUE, groups |-> rows.groups, len |-> close]
            ELSE [ok |-> FALSE, groups |-> <<>>, len |-> 0]

RECURSIVE FindCellBlocks(_)
\* re.findall(cell_pattern, str)
FindCellBlocks(str) ==
    LET i == IndexOf(str, "[")
    IN IF i = 0 THEN <<>>
       ELSE LET m == CellBlockAt(From(str, i))
            IN IF m.ok THEN <<m.groups>> \o FindCellBlocks(From(str, i + m.len))
               ELSE FindCellBlocks(From(str, i + 1))

----------------------------------------------------------------------------
(* opl_parser.py: the five decoders.  A result is [kind, val]: kind is      *)
(* "none" (the function returned None), "value" or "error" (it raised).     *)

NoData == [kind |-> "none", val |-> <<>>]

Value(v) == [kind |-> "value", val |-> v]

ParseFailure == [kind |-> "error", val |-> <<>>]

parse_opl_set(content, name) ==
    LET m == SearchSetDecl(content, name)
    IN IF m.found THEN Value(FindQuoted(m.body)) ELSE NoData

parse_opl_1d_array(content, name) ==
    LET m == SearchArrayDecl(content, name)
    IN IF ~m.found THEN NoData
       ELSE IF IntList(m.body).ok THEN Value(IntList(m.body).val) ELSE ParseFailure

parse_opl_array_of_sets(content, name) ==
    LET m == SearchArrayDecl(content, name)
        sets == FindSets(m.body)
    IN IF ~m.found THEN NoData
       ELSE Value([k \in 1..Len(sets) |-> FindQuoted(sets[k])])

\* the rows matched by [\d\s]+ hold digits and spaces only, so int() cannot raise
parse_opl_2d_array(content, name) ==
    LET m == SearchArrayDecl(content, name)
        rows == FindRows(m.body)
    IN IF ~m.found THEN NoData
       ELSE Value([k \in 1..Len(rows) |-> IntList(rows[k]).val])

parse_opl_3d_array(content, name) ==
    LET m == SearchArrayDecl(content, name)
        cells == FindCellBlocks(CollapseSpaces(m.body))
    IN IF ~m.found THEN NoData
       ELSE Value([k \in 1..Len(cells) |->
                      [j \in 1..Len(cells[k]) |-> IntList(cells[k][j]).val]])

----------------------------------------------------------------------------
(* opl_data_generator.py: write_opl_set, write_opl_2d_float_array *)

RECURSIVE Concat(_)
\* ''.join(parts)
Concat(parts) == IF parts = <<>> THEN <<>> ELSE Head(parts) \o Concat(Tail(parts))

RECURSIVE Join(_, _)
\* sep.join(parts)
Join(parts, sep) ==
    IF parts = <<>> THEN <<>>
    ELSE IF Len(parts) = 1 THEN parts[1]
    ELSE parts[1] \o sep \o Join(Tail(parts), sep)

\* the text write_opl_set writes: name = {\n, then   "item",\n per item, then };\n\n
write_opl_set(name, array) ==
    name \o <<" ", "=", " ", "{", "\n">>
    \o Concat([k \in 1..Len(array) |-> <<" ", " ", "\"">> \o array[k] \o <<"\"", ",", "\n">>])
    \o <<"}", ";", "\n", "\n">>

\* a number of the data, in tenths: an int (tenths a multiple of 10) or a float
IntValue(n) == [isFloat |-> FALSE, tenths |-> 10 * n]

FloatValue(t) == [isFloat |-> TRUE, tenths |-> t]

\* f'{val}' for a number that is not negative: 2 gives 2, 2.0 gives 2.0, 1.5 gives 1.5
FormatValue(v) ==
    IF v.isFloat
    THEN FormatInt(v.tenths \div 10) \o <<".">> \o FormatInt(v.tenths % 10)
    ELSE FormatInt(v.tenths \div 10)

\* data.get(r, {}).get(c, 0): the default is the int 0
GetCostIntDefault(costs, r, c) ==
    IF r \in DOMAIN costs
    THEN IF c \in DOMAIN costs[r] THEN costs[r][c] ELSE IntValue(0)
    ELSE IntValue(0)

\* data.get(r, {}).get(c, 0.0)
GetCost(costs, r, c) ==
    IF r \in DOMAIN costs
    THEN IF c \in DOMAIN costs[r] THEN costs[r][c] ELSE FloatValue(0)
    ELSE FloatValue(0)

\* the text write_opl_2d_float_array writes
write_opl_2d_float_array(name, costs, rows, cols) ==
    name \o <<" ", "=", " ", "[", "\n">>
    \o Concat([i \in 1..Len(rows) |->
                  <<" ", " ", "[">>
                  \o Join([j \in 1..Len(cols) |-> FormatValue(GetCost(costs, rows[i], cols[j]))],
                          <<",", " ">>)
                  \o <<"]", ",", "\n">>])
    \o <<"]", ";", "\n", "\n">>

CellsName == <<"C", "e", "l", "l", "s">>

ActionsName == <<"A", "c", "t", "i", "o", "n", "s">>

SpeciesName == <<"S", "p", "e", "c", "i", "e", "s">>

ConnectionsName == <<"C", "o", "n", "n", "e", "c", "t", "i", "o", "n", "s">>

CostsName == <<"C", "o", "s", "t", "s">>

\* generate_opl_dat_file: one write_opl_set call (opl_data_generator.py:185-188)
WriteSet ==
    /\ cpc = "write_sets"
    /\ wIdx <= Len(docSets)
    /\ fileText' = fileText \o write_opl_set(docSets[wIdx].name, docSets[wIdx].array)
    /\ wIdx' = wIdx + 1
    /\ UNCHANGED <<docSets, docCosts, decodedSets, decodedCosts, cpc>>
    /\ UNCHANGED <<bfsVars, genVars, truncVars, decodeVars, attachVars, outVars, nbVars, parVars>>

\* generate_opl_dat_file: write_opl_2d_float_array(f, 'Costs', ...), then the file is closed
WriteCosts ==
    /\ cpc = "write_sets"
    /\ wIdx > Len(docSets)
    /\ fileText' = fileText \o write_opl_2d_float_array(CostsName, docCosts,
                                    docSets[1].array, docSets[2].array)
    /\ cpc' = "read_sets"
    /\ UNCHANGED <<docSets, docCosts, wIdx, decodedSets, decodedCosts>>
    /\ UNCHANGED <<bfsVars, genVars, truncVars, decodeVars, attachVars, outVars, nbVars, parVars>>

\* the reader: parse_opl_set(content, name) for each of the sets
ReadSets ==
    /\ cpc = "read_sets"
    /\ decodedSets' = [k \in 1..Len(docSets) |-> parse_opl_set(fileText, docSets[k].name)]
    /\ cpc' = "read_costs"
    /\ UNCHANGED <<docSets, docCosts, fileText, wIdx, decodedCosts>>
    /\ UNCHANGED <<bfsVars, genVars, truncVars, decodeVars, attachVars, outVars, nbVars, parVars>>

\* the reader: parse_opl_2d_array(content, 'Costs')
ReadCosts ==
    /\ cpc = "read_costs"
    /\ decodedCosts' = parse_opl_2d_array(fileText, CostsName)
    /\ cpc' = "done"
    /\ UNCHANGED <<docSets, docCosts, fileText, wIdx, decodedSets>>
    /\ UNCHANGED <<bfsVars, genVars, truncVars, decodeVars, attachVars, outVars, nbVars, parVars>>

\* the longest Cells list of the documents
MaxCells == 3

\* the longest Actions list of the documents
MaxActions == 2

\* at most this many (cell, action) pairs have no entry in Costs
MaxMissing == 1

\* at most this many cells have no entry at all in Costs
MaxAbsent == 1

\* the cell ids the documents draw from (a column may be negative)
CellPool == {FormatCellId(0, 0), FormatCellId(1, 0), FormatCellId(-1, 2)}

AdaptationAtelerix ==
    <<"a", "d", "a", "p", "t", "a", "t", "i", "o", "n", "_",
      "a", "t", "e", "l", "e", "r", "i", "x">>

Corridor == <<"c", "o", "r", "r", "i", "d", "o", "r">>

\* the action names the documents draw from
ActionPool == {AdaptationAtelerix, Corridor}

\* export_data['Species'] (opl_data_generator.py:44)
SpeciesList ==
    << <<"a", "t", "e", "l", "e", "r", "i", "x">>, <<"m", "a", "r", "t", "e", "s">>,
       <<"e", "l", "i", "o", "m", "y", "s">>,
       <<"o", "r", "y", "c", "t", "o", "l", "a", "g", "u", "s">> >>

\* export_data['Connections'] (opl_data_generator.py:45)
ConnectionsList ==
    [k \in 1..Len(SpeciesList) |->
        <<"c", "o", "n", "n", "e", "c", "t", "e", "d", "_">> \o SpeciesList[k]]

RECURSIVE DistinctLists(_, _)
\* the lists of at most n distinct elements of S
DistinctLists(S, n) ==
    IF n = 0 THEN {<<>>}
    ELSE LET shorter == DistinctLists(S, n - 1)
         IN shorter \cup UNION {{Append(l, x) : x \in S \ SeqRange(l)} : l \in shorter}

\* the position of x in list l
PositionIn(l, x) == CHOOSE k \in 1..Len(l) : l[k] = x

\* the cost of the pair (i-th cell, j-th action): floats 1.0, 1.5, 2.0, ... or ints
CostOf(i, j, asFloat) ==
    IF asFloat THEN FloatValue(10 * i + 5 * (j % 2)) ELSE IntValue(i + j)

\* The documents: Cells and Actions are any lists of distinct names, Species and
\* Connections the lists of the generator; Costs is a map of maps holding floats
\* or ints, without an entry for at most MaxAbsent cells and, in the other
\* cells, without at most MaxMissing pairs.
InitCodec ==
    /\ \E cells \in DistinctLists(CellPool, MaxCells),
          actions \in DistinctLists(ActionPool, MaxActions) :
          /\ docSets = << [name |-> CellsName, array |-> cells],
                       [name |-> ActionsName, array |-> actions],
                       [name |-> SpeciesName, array |-> SpeciesList],
                       [name |-> ConnectionsName, array |-> ConnectionsList] >>
          /\ \E asFloat \in BOOLEAN :
             \E absent \in SubsetsUpTo(SeqRange(cells), MaxAbsent) :
             \E missing \in SubsetsUpTo((SeqRange(cells) \ absent) \X SeqRange(actions),
                                       MaxMissing) :
                docCosts = [r \in SeqRange(cells) \ absent |->
                               [c \in {a \in SeqRange(actions) : <<r, a>> \notin missing} |->
                                   CostOf(PositionIn(cells, r), PositionIn(actions, c),
                                          asFloat)]]
    /\ fileText = <<>>
    /\ wIdx = 1
    /\ decodedSets = <<>>
    /\ decodedCosts = <<>>
    /\ cpc = "write_sets"
    /\ BfsIdle
    /\ GenIdle
    /\ TruncIdle
    /\ DecodeIdle
    /\ AttachIdle
    /\ OutIdle
    /\ NbIdle
    /\ ParIdle

NextCodec ==
    \/ WriteSet
    \/ WriteCosts
    \/ ReadSets
    \/ ReadCosts

SpecCodec == InitCodec /\ [][NextCodec]_vars

\* the value written for the pair (i-th cell, j-th action), in tenths
EncodedTenths(i, j) == GetCost(docCosts, docSets[1].array[i], docSets[2].array[j]).tenths

\* C6 (as claimed): decoding the Costs declaration written by
\* write_opl_2d_float_array with the 2-D array decoder recovers one row per
\* Cell and one value per Action, each numerically equal to the encoded value.
C6_MatrixRoundTrip ==
    cpc = "done" =>
        /\ decodedCosts.kind = "value"
        /\ Len(decodedCosts.val) = Len(docSets[1].array)
        /\ \A i \in 1..Len(decodedCosts.val) :
              /\ Len(decodedCosts.val[i]) = Len(docSets[2].array)
              /\ \A j \in 1..Len(decodedCosts.val[i]) :
                    10 * decodedCosts.val[i][j] = EncodedTenths(i, j)

\* C7: reading each set declaration back from the generated text with
\* parse_opl_set returns the elements that were written, in the same order.
C7_SetRoundTrip ==
    cpc \in {"read_costs", "done"} =>
        \A k \in 1..Len(docSets) : decodedSets[k] = Value(docSets[k].array)

\* C7 witness: a text with two cells (one with a negative column) and two
\* actions has been read back, and the Cells read are the cells written.
C7_Witness ==
    /\ cpc = "done"
    /\ Len(docSets[1].array) = 2
    /\ Len(docSets[2].array) = 2
    /\ FormatCellId(-1, 2) \in SeqRange(docSets[1].array)
    /\ decodedSets[1].kind = "value"
    /\ decodedSets[1].val = docSets[1].array
    /\ decodedSets[4].val # <<>>

----------------------------------------------------------------------------
(* The decoders applied to texts made of declarations *)

\* the text write_opl_map_of_list writes for the lists of a map, in key order
write_opl_map_of_list(name, lists) ==
    name \o <<" ", "=", " ", "[", "\n">>
    \o Concat([k \in 1..Len(lists) |->
                  <<"{">>
                  \o Join([j \in 1..Len(lists[k]) |-> <<"\"">> \o lists[k][j] \o <<"\"">>],
                          <<",", " ">>)
                  \o <<"}", ",", "\n">>])
    \o <<"]", ";", "\n", "\n">>

\* A declaration is [name, kind, body]; the body is a list of blocks, a block a
\* list of rows, a row a list of tokens (a 1-D array is one row, a 2-D array one
\* block, a set one row of items, an array of sets one block of item rows).
Bracketed(inner) == <<"[">> \o inner \o <<"]">>

RowText(row) == Bracketed(Join(row, <<" ">>))

BlockText(block) == Bracketed(Join([k \in 1..Len(block) |-> RowText(block[k])], <<" ">>))

\* the text of a declaration: the solver's layout for arrays (values separated
\* by spaces), the generator's for sets and arrays of sets
DeclText(d) ==
    CASE d.kind = "1d" ->
            d.name \o <<" ", "=", " ">> \o RowText(d.body[1][1]) \o <<";", "\n">>
      [] d.kind = "2d" ->
            d.name \o <<" ", "=", " ">> \o BlockText(d.body[1]) \o <<";", "\n">>
      [] d.kind = "3d" ->
            d.name \o <<" ", "=", " ">>
            \o Bracketed(Join([k \in 1..Len(d.body) |-> BlockText(d.body[k])], <<" ">>))
            \o <<";", "\n">>
      [] d.kind = "set" -> write_opl_set(d.name, d.body[1][1])
      [] d.kind = "sets" -> write_opl_map_of_list(d.name, d.body[1])

T0 == <<"0">>

T1 == <<"1">>

Tx == <<"x">>

AddName == <<"a", "d", "d">>

CorName == <<"c", "o", "r">>

ConName == <<"c", "o", "n">>

ConOName == <<"c", "o", "n", "_", "o">>

DecorName == <<"d", "e", "c", "o", "r">>

SubCellsName == <<"S", "u", "b">> \o CellsName

NeighborsName == <<"N", "e", "i", "g", "h", "b", "o", "r", "s">>

FourRows == << <<T1, T0>>, <<T0, T1>>, <<T1, T1>>, <<T0, T0>> >>

ThreeRows == << <<T1>>, <<T0>>, <<T1>> >>

\* the declarations the texts are made of: the four arrays of a solution, well
\* formed and with one malformed row or block; a declaration whose name ends
\* with `cor`; the sets (a Species set of three species among them) and the
\* array of sets of a data file
DeclPool ==
    { [name |-> CorName, kind |-> "1d", body |-> << << <<T1, T0, T0>> >> >>],
      [name |-> CorName, kind |-> "1d", body |-> << << <<T1, Tx, T0>> >> >>],
      [name |-> DecorName, kind |-> "1d", body |-> << << <<T1, T0>> >> >>],
      [name |-> AddName, kind |-> "2d",
       body |-> << << <<T1, T0>>, <<T0, T1>>, <<T1, T1>> >> >>],
      [name |-> AddName, kind |-> "2d",
       body |-> << << <<T1, T0>>, <<T1, Tx>>, <<T0, T1>> >> >>],
      [name |-> ConName, kind |-> "2d", body |-> << << <<T0, T1>>, <<T1, T0>> >> >>],
      [name |-> ConOName, kind |-> "3d", body |-> <<FourRows, FourRows>>],
      [name |-> ConOName, kind |-> "3d", body |-> <<FourRows, ThreeRows, FourRows>>],
      [name |-> CellsName, kind |-> "set",
       body |-> << << <<FormatCellId(0, 0), FormatCellId(1, 0)>> >> >>],
      [name |-> SubCellsName, kind |-> "set", body |-> << << <<FormatCellId(2, 2)>> >> >>],
      [name |-> SpeciesName, kind |-> "set",
       body |-> << << SubSeq(SpeciesList, 1, 3) >> >>],
      [name |-> NeighborsName, kind |-> "sets",
       body |-> << << <<FormatCellId(1, 0)>>, <<FormatCellId(0, 0)>> >> >>] }

\* the names the reader asks for (opl_solution_visualizer.py:59-61, 120-123)
RequestNames == {AddName, CorName, ConName, ConOName, CellsName, NeighborsName}

Decoders == {"set", "1d", "sets", "2d", "3d"}

\* the call of one of the five decoders
ApplyDecoder(decoder, content, name) ==
    CASE decoder = "set" -> parse_opl_set(content, name)
      [] decoder = "1d" -> parse_opl_1d_array(content, name)
      [] decoder = "sets" -> parse_opl_array_of_sets(content, name)
      [] decoder = "2d" -> parse_opl_2d_array(content, name)
      [] decoder = "3d" -> parse_opl_3d_array(content, name)

\* load_opl_file(filepath): the content of the file
LoadFile ==
    /\ dpc = "load"
    /\ solText' = Concat([k \in 1..Len(solDecls) |-> DeclText(solDecls[k])])
    /\ dpc' = "parse"
    /\ UNCHANGED <<solDecls, request, decodeResult>>
    /\ UNCHANGED <<bfsVars, genVars, truncVars, codecVars, attachVars, outVars, nbVars, parVars>>

\* one call parse_opl_*(content, name)
Decode ==
    /\ dpc = "parse"
    /\ \E decoder \in Decoders, name \in RequestNames :
          /\ request' = [decoder |-> decoder, name |-> name]
          /\ decodeResult' = ApplyDecoder(decoder, solText, name)
    /\ dpc' = "parsed"
    /\ UNCHANGED <<solDecls, solText>>
    /\ UNCHANGED <<bfsVars, genVars, truncVars, codecVars, attachVars, outVars, nbVars, parVars>>

\* the longest text, in declarations
MaxDecls == 2

\* the lists of at most n declarations of DeclPool; a name may be declared
\* more than once
RECURSIVE DeclLists(_)
DeclLists(n) ==
    IF n = 0 THEN {<<>>}
    ELSE LET shorter == DeclLists(n - 1)
         IN shorter \cup {Append(l, d) : l \in shorter, d \in DeclPool}

InitDecode ==
    /\ solDecls \in DeclLists(MaxDecls)
    /\ solText = <<>>
    /\ request = [decoder |-> "none", name |-> <<>>]
    /\ decodeResult = [kind |-> "none", val |-> <<>>]
    /\ dpc = "load"
    /\ BfsIdle
    /\ GenIdle
    /\ TruncIdle
    /\ CodecIdle
    /\ AttachIdle
    /\ OutIdle
    /\ NbIdle
    /\ ParIdle

NextDecode ==
    \/ LoadFile
    \/ Decode

SpecDecode == InitDecode /\ [][NextDecode]_vars

\* the name ends with the suffix
EndsWith(name, suffix) ==
    /\ Len(suffix) <= Len(name)
    /\ SubSeq(name, Len(name) - Len(suffix) + 1, Len(name)) = suffix

\* every token of the row is a decimal integer
IntegerRow(row) == \A k \in 1..Len(row) : AllDigits(row[k])

\* the body of an array declaration is well formed: integer tokens only and,
\* for the 3-D structure, exactly four rows in every cell block
WellFormed(d) ==
    /\ \A b \in 1..Len(d.body) : \A r \in 1..Len(d.body[b]) : IntegerRow(d.body[b][r])
    /\ d.kind = "3d" => \A b \in 1..Len(d.body) : Len(d.body[b]) = RowsPerCell

\* declaration k of the text is the one a call for its name and kind finds:
\* no earlier declaration has a name ending with that name
FoundAt(k) ==
    /\ solDecls[k].name = request.name
    /\ solDecls[k].kind = request.decoder
    /\ \A j \in 1..(k - 1) : ~EndsWith(solDecls[j].name, request.name)

\* C8 (as claimed): when the declaration found for the requested name has a
\* body that is not well formed (a row with a non-integer token, a cell block
\* without exactly four rows), the decoder fails with a parse error and
\* returns no structure.
C8_MalformedIsError ==
    dpc = "parsed" =>
        \A k \in 1..Len(solDecls) :
            (FoundAt(k) /\ solDecls[k].kind \in {"1d", "2d", "3d"} /\ ~WellFormed(solDecls[k]))
                => decodeResult.kind = "error"

\* C9 (as claimed): when no declaration of the text has the requested name,
\* the call returns the no-data result (None) and raises no error.
C9_AbsentIsNoData ==
    dpc = "parsed" =>
        ((\A k \in 1..Len(solDecls) : solDecls[k].name # request.name)
            => decodeResult = NoData)

----------------------------------------------------------------------------
(* opl_solution_visualizer.py: attach_solution_data_to_cells *)

NumActions == 4

NumConnectionOrigins == 24

\* [0] * n
Zeros(n) == [k \in 1..n |-> 0]

\* the values used when an array has no entry for the cell
DefaultAdd == Zeros(NumActions)

DefaultCor == 0

DefaultCon == Zeros(NumActions)

DefaultConO == [r \in 1..4 |-> Zeros(NumConnectionOrigins)]

\* `data and i < len(data)`: the array is neither None nor empty and has an
\* entry for the cell at (1-based) position i
HasEntry(d, i) == d.kind = "value" /\ d.val # <<>> /\ i <= Len(d.val)

\* data[i] if data and i < len(data) else default
EntryOr(d, i, default) == IF HasEntry(d, i) THEN d.val[i] ELSE default

\* cell['grid_id'] in origins
IsOrigin(grid_id, origins) == \E k \in 1..Len(origins) : origins[k] = grid_id

\* one iteration of the loop over the cells
AttachCell ==
    /\ apc = "loop"
    /\ ai <= Len(ordered_cells)
    /\ ordered_cells' =
          [ordered_cells EXCEPT ![ai] =
              [grid_id |-> @.grid_id,
               fields |-> Value([add |-> EntryOr(add_data, ai, DefaultAdd),
                                 cor |-> EntryOr(cor_data, ai, DefaultCor),
                                 con |-> EntryOr(con_data, ai, DefaultCon),
                                 con_o |-> EntryOr(con_o_data, ai, DefaultConO),
                                 is_origin |->
                                     [k \in 1..Len(species_origins) |->
                                         IsOrigin(@.grid_id, species_origins[k])]])]]
    /\ ai' = ai + 1
    /\ UNCHANGED <<add_data, cor_data, con_data, con_o_data, species_origins, apc>>
    /\ UNCHANGED <<bfsVars, genVars, truncVars, codecVars, decodeVars, outVars, nbVars, parVars>>

\* the loop is over: the function returns None
AttachReturn ==
    /\ apc = "loop"
    /\ ai > Len(ordered_cells)
    /\ apc' = "done"
    /\ UNCHANGED <<ordered_cells, add_data, cor_data, con_data, con_o_data,
                   species_origins, ai>>
    /\ UNCHANGED <<bfsVars, genVars, truncVars, codecVars, decodeVars, outVars, nbVars, parVars>>

\* the most cells, and the most entries of a parsed array
MaxAttachCells == 2

MaxEntries == 3

\* entry i of the arrays of a solution: one action, one connection and one
\* connection origin chosen by the position of the cell
UnitRow(n, i) == [k \in 1..n |-> IF k = ((i - 1) % n) + 1 THEN 1 ELSE 0]

AddEntry(i) == UnitRow(NumActions, i)

CorEntry(i) == i % 2

ConEntry(i) == UnitRow(NumActions, i + 1)

ConOEntry(i) == [r \in 1..4 |-> IF r = 1 THEN UnitRow(NumConnectionOrigins, i)
                                 ELSE Zeros(NumConnectionOrigins)]

\* what a decoder hands over: None, or a list of the first entries
ParsedArrays(entries) ==
    {NoData} \cup {Value(SubSeq(entries, 1, m)) : m \in 0..Len(entries)}

InitAttach ==
    /\ \E n \in 0..MaxAttachCells :
          ordered_cells = [i \in 1..n |-> [grid_id |-> FormatCellId(i - 1, 0),
                                           fields |-> NoData]]
    /\ add_data \in ParsedArrays([i \in 1..MaxEntries |-> AddEntry(i)])
    /\ cor_data \in ParsedArrays([i \in 1..MaxEntries |-> CorEntry(i)])
    /\ con_data \in ParsedArrays([i \in 1..MaxEntries |-> ConEntry(i)])
    /\ con_o_data \in ParsedArrays([i \in 1..MaxEntries |-> ConOEntry(i)])
    /\ \E first \in {<<>>, <<FormatCellId(0, 0)>>},
          second \in {<<>>, <<FormatCellId(1, 0), FormatCellId(3, 0)>>} :
          species_origins = <<first, second>>
    /\ ai = 1
    /\ apc = "loop"
    /\ BfsIdle
    /\ GenIdle
    /\ TruncIdle
    /\ CodecIdle
    /\ DecodeIdle
    /\ OutIdle
    /\ NbIdle
    /\ ParIdle

NextAttach ==
    \/ AttachCell
    \/ AttachReturn

SpecAttach == InitAttach /\ [][NextAttach]_vars

\* the array is present and its length is not the number of cells
LengthDiffers(d) == d.kind = "value" /\ Len(d.val) # Len(ordered_cells)

\* C10 (as claimed): when one of the parsed arrays add, cor, con, con_o has a
\* length different from the number of cells, attach_solution_data_to_cells
\* raises LengthMismatch: it never returns normally, having padded the cells
\* beyond the end of the array with defaults or ignored surplus entries.
C10_LengthMismatchRaised ==
    apc = "done" =>
        ~(\/ LengthDiffers(add_data)
          \/ LengthDiffers(cor_data)
          \/ LengthDiffers(con_data)
          \/ LengthDiffers(con_o_data))

----------------------------------------------------------------------------
(* opl_data_generator.py run as a program (python opl_data_generator.py) *)

\* the documents export_data can be: what is built from the dataset as it is
\* now ("current") and what an earlier run may have left in the cache ("earlier")
Documents == {"current", "earlier"}

CacheFile(d) == [exists |-> TRUE, doc |-> d, sections |-> 1]

\* the declarations generate_opl_dat_file writes, in order
DatSections ==
    <<"Cells", "Actions", "Species", "Connections", "Costs", "SuitabilityScores",
      "Neighbors", "SpeciesDistances", "Area">>

\* a .dat file holding the first k declarations of document d
DatFile(d, k) == [exists |-> TRUE, doc |-> d, sections |-> k]

\* os.path.exists('opl_model_data.json')
CacheExists == cache.exists

\* generate_model_data_json() without the test of lines 19-21: the document is
\* built and written at every call
GenerateAlways(c) == <<CacheFile("current"), <<"build", "write">> >>

\* generate_model_data_json(): returns when the cache exists, else builds
\* export_data from the dataset and writes it; gives <<cache, operations>>
generate_model_data_json(c) ==
    IF c.exists
    THEN <<c, <<"exists">> >>
    ELSE <<CacheFile("current"), <<"exists", "build", "write">> >>

\* with open('opl_model_data.json', 'r') as file: data = json.load(file)
\* open() raises FileNotFoundError when the file does not exist
ReadCache(c) == IF c.exists THEN Ok(c.doc) ELSE Raised

\* the module body up to `if __name__ == "__main__"`: the definitions and the
\* module-level read of the cache (opl_data_generator.py:97-99)
ModuleBody ==
    /\ gpc = "module"
    /\ IF ReadCache(cache).ok
       THEN /\ data' = ReadCache(cache).val
            /\ cacheOps' = Append(cacheOps, "read")
            /\ gpc' = "main"
       ELSE /\ data' = data
            /\ cacheOps' = Append(cacheOps, "read_failed")
            /\ gpc' = "crashed"
    /\ UNCHANGED <<cache, cache0, datFiles, mainData, runIdx>>
    /\ UNCHANGED <<bfsVars, truncVars, codecVars, decodeVars, attachVars, outVars, nbVars, parVars>>

\* main(): generate_model_data_json()
MainGenerate ==
    /\ gpc = "main"
    /\ cache' = generate_model_data_json(cache)[1]
    /\ cacheOps' = cacheOps \o generate_model_data_json(cache)[2]
    /\ gpc' = "main_load"
    /\ UNCHANGED <<cache0, datFiles, data, mainData, runIdx>>
    /\ UNCHANGED <<bfsVars, truncVars, codecVars, decodeVars, attachVars, outVars, nbVars, parVars>>

\* main(): the read of the cache into the local `data`
MainLoad ==
    /\ gpc = "main_load"
    /\ IF ReadCache(cache).ok
       THEN /\ mainData' = ReadCache(cache).val
            /\ cacheOps' = Append(cacheOps, "read")
            /\ runIdx' = 1
            /\ gpc' = "dat_open"
       ELSE /\ cacheOps' = Append(cacheOps, "read_failed")
            /\ gpc' = "crashed"
            /\ UNCHANGED <<mainData, runIdx>>
    /\ UNCHANGED <<cache, cache0, datFiles, data>>
    /\ UNCHANGED <<bfsVars, truncVars, codecVars, decodeVars, attachVars, outVars, nbVars, parVars>>

\* main(): head of `for n in [2, 5, 11]`; generate_opl_dat_file opens the
\* output file for writing, which creates or empties it
DatOpen ==
    /\ gpc = "dat_open"
    /\ IF runIdx > Len(NClosestRuns)
       THEN /\ gpc' = "finished"
            /\ UNCHANGED datFiles
       ELSE /\ datFiles' = [datFiles EXCEPT ![runIdx] = DatFile(mainData, 0)]
            /\ gpc' = "dat_write"
    /\ UNCHANGED <<cache, cache0, data, mainData, runIdx, cacheOps>>
    /\ UNCHANGED <<bfsVars, truncVars, codecVars, decodeVars, attachVars, outVars, nbVars, parVars>>

\* generate_opl_dat_file: one write_opl_* call
DatWrite ==
    /\ gpc = "dat_write"
    /\ datFiles[runIdx].sections < Len(DatSections)
    /\ datFiles' = [datFiles EXCEPT ![runIdx].sections = @ + 1]
    /\ UNCHANGED <<cache, cache0, gpc, data, mainData, runIdx, cacheOps>>
    /\ UNCHANGED <<bfsVars, truncVars, codecVars, decodeVars, attachVars, outVars, nbVars, parVars>>

\* generate_opl_dat_file: the end of the `with` block, then the next n
DatClose ==
    /\ gpc = "dat_write"
    /\ datFiles[runIdx].sections = Len(DatSections)
    /\ runIdx' = runIdx + 1
    /\ gpc' = "dat_open"
    /\ UNCHANGED <<cache, cache0, datFiles, data, mainData, cacheOps>>
    /\ UNCHANGED <<bfsVars, truncVars, codecVars, decodeVars, attachVars, outVars, nbVars, parVars>>

\* The program starts with any file system: the cache absent or left by an
\* earlier run, each .dat file absent or left complete by an earlier run.
InitGen ==
    /\ cache \in {NoFile} \cup {CacheFile(d) : d \in Documents}
    /\ cache0 = cache
    /\ datFiles \in [1..Len(NClosestRuns) ->
                        {NoFile} \cup {DatFile(d, Len(DatSections)) : d \in Documents}]
    /\ gpc = "module"
    /\ data = "unset"
    /\ mainData = "unset"
    /\ runIdx = 0
    /\ cacheOps = <<>>
    /\ BfsIdle
    /\ TruncIdle
    /\ CodecIdle
    /\ DecodeIdle
    /\ AttachIdle
    /\ OutIdle
    /\ NbIdle
    /\ ParIdle

NextGen ==
    \/ ModuleBody
    \/ MainGenerate
    \/ MainLoad
    \/ DatOpen
    \/ DatWrite
    \/ DatClose

SpecGen == InitGen /\ [][NextGen]_vars

\* the program has ended with every model file generated from the cache
ModelFilesGenerated ==
    /\ gpc = "finished"
    /\ \A k \in 1..Len(NClosestRuns) : datFiles[k] = DatFile(cache.doc, Len(DatSections))

\* no read of the cache was attempted before the cache existed
NoReadBeforeWrite ==
    \A k \in 1..Len(cacheOps) :
        cacheOps[k] \in {"read", "read_failed"} =>
            /\ cacheOps[k] = "read"
            /\ \E j \in 1..(k - 1) : cacheOps[j] = "write"

\* the program has stopped (it ended or it crashed)
ProgramStopped == gpc \in {"finished", "crashed"}

\* C3 (as claimed): a run that starts without opl_model_data.json checks for
\* the cache, builds and writes it and only then reads it; no read is
\* attempted before the write, and the run ends with the model files generated.
C3_BuildThenLoad ==
    ~cache0.exists =>
        /\ NoReadBeforeWrite
        /\ ProgramStopped => /\ ModelFilesGenerated
                             /\ cacheOps = <<"exists", "build", "write", "read">>

----------------------------------------------------------------------------
(* Datasets of the traversal's specification *)

\* the 3x3 grid cell_0_0 ... cell_2_2 followed by the detached cell cell_4_1
\* (ids need not be contiguous), in dataset order
GridCells ==
    [k \in 1..9 |-> FormatCellId((k - 1) \div 3, (k - 1) % 3)] \o <<FormatCellId(4, 1)>>

\* at most this many cells of GridCells are missing from a dataset
MaxHoles == 1

\* at most this many cells of a dataset are origins
MaxOrigins == 2

\* the number of elements of rows that are below k
Rank(rows, k) == Cardinality({j \in rows : j < k})

\* The datasets: GridCells without up to MaxHoles cells; up to MaxOrigins origin
\* rows, of which species s is flagged on all but the first s - 1 (so the species
\* have different numbers of origins and one cell has different origin indexes).
InitBFS ==
    /\ \E holes \in SubsetsUpTo(SeqRange(GridCells), MaxHoles) :
          LET present(id) == id \notin holes
          IN grid_ids = SelectSeq(GridCells, present)
    /\ \E rows \in SubsetsUpTo(1..Len(grid_ids), MaxOrigins) :
          has_species = [s \in 1..NumSpecies |->
                            [k \in 1..Len(grid_ids) |->
                                k \in rows /\ Rank(rows, k) >= s - 1]]
    /\ neighbors = <<>>
    /\ distances = [s \in 1..NumSpecies |-> <<>>]
    /\ starting_points = <<>>
    /\ sp = 0
    /\ oi = 0
    /\ queue = <<>>
    /\ visited = {}
    /\ dequeued = <<>>
    /\ pc = "neighbors"
    /\ GenIdle
    /\ TruncIdle
    /\ CodecIdle
    /\ DecodeIdle
    /\ AttachIdle
    /\ OutIdle
    /\ NbIdle
    /\ ParIdle

NextBFS ==
    \/ AddNeighborsColumn
    \/ SpeciesLoop
    \/ OriginLoop
    \/ BFSStep
    \/ BFSExit

SpecBFS == InitBFS /\ [][NextBFS]_vars

----------------------------------------------------------------------------
(* The neighbor graph and its hop distances, for the claims on the traversal *)

\* the ids one edge away from a set of ids, in the graph stored in `neighbors`
Successors(W) == UNION {SeqRange(neighbors[RowOf(w)]) : w \in W}

RECURSIVE Within(_, _)
\* the ids at most k edges away from o
Within(o, k) ==
    IF k = 0 THEN {o}
    ELSE LET W == Within(o, k - 1) IN W \cup Successors(W)

Reachable(o, c) == c \in Within(o, Len(grid_ids))

\* the number of edges of a shortest path from o to c
ShortestHops(o, c) ==
    CHOOSE k \in 0..Len(grid_ids) :
        c \in Within(o, k) /\ (k = 0 \/ c \notin Within(o, k - 1))

\* the entry of cell c at origin index i in the table of species s
Entry(s, c, i) == distances[s][RowOf(c)][i]

\* C1: once add_species_distance_column has finished, for every species, every
\* origin o of it (at origin index i) and every cell c reachable from o, the
\* entry of c at index i is the number of edges of a shortest path from o to c.
C1_BfsShortestPath ==
    pc = "done" =>
        \A s \in 1..NumSpecies : \A i \in 1..Len(StartingPoints(s)) :
            \A c \in SeqRange(grid_ids) :
                Reachable(StartingPoints(s)[i], c)
                    => Entry(s, c, i) = ShortestHops(StartingPoints(s)[i], c)

\* C1 witness: a finished run on a dataset with a hole in which some cell is
\* three edges away from an origin and some other cell is one edge away.
C1_Witness ==
    /\ pc = "done"
    /\ Len(grid_ids) < Len(GridCells)
    /\ \E s \in 1..NumSpecies : \E i \in 1..Len(StartingPoints(s)) :
          /\ \E c \in SeqRange(grid_ids) :
                /\ Reachable(StartingPoints(s)[i], c)
                /\ ShortestHops(StartingPoints(s)[i], c) = 3
                /\ Entry(s, c, i) = 3
          /\ \E c \in SeqRange(grid_ids) : Entry(s, c, i) = 1

\* C2 (as claimed): a cell that is not reachable from an origin never holds the
\* value 0 at that origin's index; a 0 at index i appears only in origin i.
C2_UnreachedNeverZero ==
    pc = "done" =>
        \A s \in 1..NumSpecies : \A i \in 1..Len(StartingPoints(s)) :
            \A c \in SeqRange(grid_ids) :
                Entry(s, c, i) = 0 => c = StartingPoints(s)[i]

\* the difference of two numbers, without sign
AbsDiff(a, b) == IF a >= b THEN a - b ELSE b - a

IsGlobalMaximum(m) ==
    LET lens == UNION {{Len(sd_data[s].cells[c].dist) : c \in 1..Len(sd_data[s].cells)} :
                          s \in 1..Len(sd_data)}
    IN /\ \A l \in lens : l <= m
       /\ (m \in lens \/ (lens = {} /\ m = 0))

\* C12: every per-cell row written in the SpeciesDistances declaration has
\* length exactly the maximum distance-list length over all (species, cell)
\* pairs, whatever K and the cell's own list length: the blocks are rectangular.
C12_RectangularRows ==
    \A k \in 1..Len(sd_rows) : IsGlobalMaximum(Len(sd_rows[k].row))

\* C12 witness: the declaration is complete, the two cells have lists of
\* different lengths, and K is below the length of the longer one.
C12_Witness ==
    /\ tpc = "done"
    /\ Len(sd_rows) = 2
    /\ Len(sd_data[1].cells[1].dist) < Len(sd_data[2].cells[1].dist)
    /\ n_closest < Len(sd_data[2].cells[1].dist)
    /\ n_closest > 0

----------------------------------------------------------------------------
(* The Costs declaration read line by line, for the claims on its layout *)

\* the lines of the generated text
FileLines == Split(fileText, "\n")

\* the line that opens the Costs declaration
CostsHeader == CostsName \o <<" ", "=", " ", "[">>

\* the index of the line that opens the Costs declaration
CostsLine == CHOOSE h \in 1..Len(FileLines) : FileLines[h] = CostsHeader

\* the line is `  [` ... `],`
IsRowLine(line) ==
    /\ Len(line) >= 5
    /\ SubSeq(line, 1, 3) = <<" ", " ", "[">>
    /\ SubSeq(line, Len(line) - 1, Len(line)) = <<"]", ",">>

\* the values of a row line: the texts between the brackets, separated by `, `
RowValues(line) ==
    LET inner == SubSeq(line, 4, Len(line) - 2)
        parts == Split(inner, ",")
    IN IF inner = <<>> THEN <<>>
       ELSE [j \in 1..Len(parts) |-> IF j = 1 THEN parts[j] ELSE Tail(parts[j])]

\* the number a decimal text stands for, in tenths: digits, or digits `.` digit
DecimalTenths(token) ==
    LET parts == Split(token, ".")
    IN IF Len(parts) = 1 THEN 10 * DigitsValue(parts[1], 0)
       ELSE 10 * DigitsValue(parts[1], 0) + DigitsValue(parts[2], 0)

\* the pair (i-th cell, j-th action) has a value in Costs
HasCost(i, j) ==
    /\ docSets[1].array[i] \in DOMAIN docCosts
    /\ docSets[2].array[j] \in DOMAIN docCosts[docSets[1].array[i]]

\* C13: the Costs declaration written by write_opl_2d_float_array has exactly
\* one row per element of Cells, in Cells order, and in each row one value per
\* element of Actions, in Actions order: the value of the pair when Costs has
\* one, and 0.0 when the pair or the whole cell is missing; the writer does
\* not fail.
C13_DenseMatrixRows ==
    cpc \in {"read_sets", "read_costs", "done"} =>
        LET cells == docSets[1].array
            actions == docSets[2].array
            h == CostsLine
        IN /\ \E k \in 1..Len(FileLines) : FileLines[k] = CostsHeader
           /\ Len(FileLines) = h + Len(cells) + 3
           /\ FileLines[h + Len(cells) + 1] = <<"]", ";">>
           /\ FileLines[h + Len(cells) + 2] = <<>>
           /\ FileLines[h + Len(cells) + 3] = <<>>
           /\ \A i \in 1..Len(cells) :
                 /\ IsRowLine(FileLines[h + i])
                 /\ Len(RowValues(FileLines[h + i])) = Len(actions)
                 /\ \A j \in 1..Len(actions) :
                       IF HasCost(i, j)
                       THEN DecimalTenths(RowValues(FileLines[h + i])[j])
                                = docCosts[cells[i]][actions[j]].tenths
                       ELSE RowValues(FileLines[h + i])[j] = <<"0", ".", "0">>

\* C13 witness: the Costs of two cells and two actions were written, the
\* first cell with a value for one action only and the second cell with no
\* entry at all, and the rows are [2.0, 0.0] then [0.0, 0.0] or alike.
C13_Witness ==
    /\ cpc = "done"
    /\ Len(docSets[1].array) = 2
    /\ Len(docSets[2].array) = 2
    /\ HasCost(1, 1)
    /\ docSets[1].array[1] \in DOMAIN docCosts
    /\ ~HasCost(1, 2)
    /\ docSets[1].array[2] \notin DOMAIN docCosts
    /\ Len(RowValues(FileLines[CostsLine + 1])) = 2
    /\ RowValues(FileLines[CostsLine + 1])[2] = <<"0", ".", "0">>
    /\ RowValues(FileLines[CostsLine + 2]) = << <<"0", ".", "0">>, <<"0", ".", "0">> >>

----------------------------------------------------------------------------
(* opl_data_generator.py: generate_opl_dat_file(data, n_closest) *)

\* A dict that is iterated is a list of [key, val] entries in insertion order;
\* a dict that is only looked up is a function.
MapValues(map) == [k \in 1..Len(map) |-> map[k].val]

MapKeys(map) == [k \in 1..Len(map) |-> map[k].key]

\* the text write_opl_map_of_numbers writes for the values of a map, in key order
write_opl_map_of_numbers(name, vals) ==
    name \o <<" ", "=", " ", "[", "\n">>
    \o Concat([k \in 1..Len(vals) |-> FormatValue(vals[k]) \o <<",", "\n">>])
    \o <<"]", ";", "\n", "\n">>

\* str(padding_value): the float 1e6
PaddingText == FormatInt(PaddingValue) \o <<".", "0">>

\* dist_str of one cell: the kept distances are ints, the padding is a float
DistStr(dist_list, k, maxlen) ==
    Join([idx \in 1..maxlen |->
             IF idx <= Len(dist_list) /\ idx \in KeepIndices(dist_list, k)
             THEN FormatInt(dist_list[idx])
             ELSE PaddingText],
         <<",", " ">>)

\* the text write_species_distances writes
write_species_distances(sdd, k) ==
    <<"S", "p", "e", "c", "i", "e", "s", "D", "i", "s", "t", "a", "n", "c", "e", "s">>
    \o <<" ", "=", " ", "[", "\n">>
    \o Concat([s \in 1..Len(sdd) |->
                  <<"[", "\n">>
                  \o Concat([c \in 1..Len(sdd[s].cells) |->
                                <<"[">> \o DistStr(sdd[s].cells[c].dist, k, MaxLength(sdd))
                                \o <<"]", ",", "\n">>])
                  \o <<"]", ",", "\n">>])
    \o <<"]", ";", "\n", "\n">>

SuitabilityScoresName ==
    <<"S", "u", "i", "t", "a", "b", "i", "l", "i", "t", "y", "S", "c", "o", "r", "e", "s">>

AreaName == <<"A", "r", "e", "a">>

\* the text of the k-th write_opl_* call of generate_opl_dat_file
DeclarationText(doc, n, k) ==
    CASE k = 1 -> write_opl_set(CellsName, doc.Cells)
      [] k = 2 -> write_opl_set(ActionsName, doc.Actions)
      [] k = 3 -> write_opl_set(SpeciesName, doc.Species)
      [] k = 4 -> write_opl_set(ConnectionsName, doc.Connections)
      [] k = 5 -> write_opl_2d_float_array(CostsName, doc.Costs, doc.Cells, doc.Actions)
      [] k = 6 -> write_opl_2d_float_array(SuitabilityScoresName, doc.SuitabilityScores,
                                           doc.Cells, doc.Actions)
      [] k = 7 -> write_opl_map_of_list(NeighborsName, MapValues(doc.Neighbors))
      [] k = 8 -> write_species_distances(doc.SpeciesDistances, n)
      [] k = 9 -> write_opl_map_of_numbers(AreaName, MapValues(doc.Area))

\* with open(output_path, 'w') as f: the file is created or emptied
OpenOutput ==
    /\ opc = "open"
    /\ out_text' = <<>>
    /\ out_idx' = 1
    /\ opc' = "write"
    /\ UNCHANGED <<out_data, out_n, out_prev>>
    /\ UNCHANGED <<bfsVars, genVars, truncVars, codecVars, decodeVars, attachVars, nbVars, parVars>>

\* one write_opl_* call, in the order of the source
WriteDeclaration ==
    /\ opc = "write"
    /\ out_idx <= Len(DatSections)
    /\ out_text' = out_text \o DeclarationText(out_data, out_n, out_idx)
    /\ out_idx' = out_idx + 1
    /\ UNCHANGED <<out_data, out_n, out_prev, opc>>
    /\ UNCHANGED <<bfsVars, genVars, truncVars, codecVars, decodeVars, attachVars, nbVars, parVars>>

\* the end of the `with` block: the file is closed and the function returns
CloseOutput ==
    /\ opc = "write"
    /\ out_idx > Len(DatSections)
    /\ opc' = "done"
    /\ UNCHANGED <<out_data, out_n, out_prev, out_text, out_idx>>
    /\ UNCHANGED <<bfsVars, genVars, truncVars, codecVars, decodeVars, attachVars, nbVars, parVars>>

\* the key lists of a map over the cells: the cells in any order, without at
\* most MaxAbsent of them
KeyLists(cells) ==
    {l \in DistinctLists(SeqRange(cells), Len(cells)) : Len(l) >= Len(cells) - MaxAbsent}

\* row['neighbors'] of a cell of the dataset whose ids are `cells`
NeighborsOf(id, cells) == get_neighbors(id, SeqRange(cells)).val

\* row['cell_area_km2'] of the i-th cell: 1.5, 2.5, ...
AreaOf(i) == FloatValue(10 * i + 5)

\* the distance list of the i-th cell for the s-th species: species have
\* 1, 2, 3, 1 origins
DistancesOf(s, i) == [j \in 1..(((s - 1) % 3) + 1) |-> (s + i + 2 * j) % 3]

\* the document with these cells, these keys of Neighbors and Area, without the
\* absent cells in Costs, SuitabilityScores and SpeciesDistances, and with the
\* first nspecies species in SpeciesDistances
DocumentOf(cells, nkeys, akeys, absent, nspecies) ==
    LET actions == <<AdaptationAtelerix, Corridor>>
        present(id) == id \notin absent
    IN [Cells |-> cells,
        Actions |-> actions,
        Species |-> SpeciesList,
        Connections |-> ConnectionsList,
        Costs |-> [r \in SeqRange(cells) \ absent |->
                      [c \in SeqRange(actions) |->
                          CostOf(PositionIn(cells, r), PositionIn(actions, c), TRUE)]],
        SuitabilityScores |->
            [r \in SeqRange(cells) \ absent |->
                [c \in {AdaptationAtelerix} |-> IntValue(PositionIn(cells, r))]],
        Neighbors |-> [k \in 1..Len(nkeys) |->
                          [key |-> nkeys[k], val |-> NeighborsOf(nkeys[k], cells)]],
        SpeciesDistances |->
            [s \in 1..nspecies |->
                [species |-> SpeciesList[s],
                 cells |-> LET kept == SelectSeq(cells, present)
                           IN [c \in 1..Len(kept) |->
                                  [cell |-> kept[c],
                                   dist |-> DistancesOf(s, PositionIn(cells, kept[c]))]]]],
        Area |-> [k \in 1..Len(akeys) |->
                     [key |-> akeys[k], val |-> AreaOf(PositionIn(cells, akeys[k]))]]]

\* The documents: Cells any list of distinct ids; Neighbors and Area with the
\* cells as keys in any order, possibly without one; Costs, SuitabilityScores
\* and the cell maps of SpeciesDistances possibly without one cell;
\* SpeciesDistances possibly without the last species.
InitOut ==
    /\ \E cells \in DistinctLists(CellPool, MaxCells) :
       \E nkeys \in KeyLists(cells), akeys \in KeyLists(cells) :
       \E absent \in SubsetsUpTo(SeqRange(cells), MaxAbsent) :
       \E nspecies \in {Len(SpeciesList) - 1, Len(SpeciesList)} :
          out_data = DocumentOf(cells, nkeys, akeys, absent, nspecies)
    /\ out_n \in SeqRange(NClosestRuns)
    /\ out_prev = <<>>
    /\ out_text = <<>>
    /\ out_idx = 0
    /\ opc = "open"
    /\ BfsIdle
    /\ GenIdle
    /\ TruncIdle
    /\ CodecIdle
    /\ DecodeIdle
    /\ AttachIdle
    /\ NbIdle
    /\ ParIdle

NextOut ==
    \/ OpenOutput
    \/ WriteDeclaration
    \/ CloseOutput

SpecOut == InitOut /\ [][NextOut]_vars

\* the map has an entry for every element of the list
Covers(keys, members) == SeqRange(members) \subseteq SeqRange(keys)

\* the dict has an entry for every element of the list
CoversDomain(dict, members) == SeqRange(members) \subseteq DOMAIN dict

\* every supplied array of the document has an entry for every declared member
AllCovered(doc) ==
    /\ CoversDomain(doc.Costs, doc.Cells)
    /\ CoversDomain(doc.SuitabilityScores, doc.Cells)
    /\ Covers(MapKeys(doc.Neighbors), doc.Cells)
    /\ Covers(MapKeys(doc.Area), doc.Cells)
    /\ Covers([s \in 1..Len(doc.SpeciesDistances) |-> doc.SpeciesDistances[s].species],
              doc.Species)
    /\ \A s \in 1..Len(doc.SpeciesDistances) :
          Covers([c \in 1..Len(doc.SpeciesDistances[s].cells) |->
                     doc.SpeciesDistances[s].cells[c].cell],
                 doc.Cells)

\* C14 (as claimed): encoding fails with InconsistentOrder whenever a supplied
\* array (Costs, SuitabilityScores, Neighbors, SpeciesDistances, Area) has no
\* entry for some member of the declared Cells or Species set; no model file
\* is completed in that case.
C14_UncoveredIsRejected ==
    opc = "done" => AllCovered(out_data)

\* C15 (as claimed): the Neighbors declaration of the completed file holds
\* exactly one set per element of Cells, and the i-th set is the neighbor list
\* of the i-th element of Cells, whatever the key order of the Neighbors map.
C15_NeighborsInCellsOrder ==
    opc = "done" =>
        LET written == parse_opl_array_of_sets(out_text, NeighborsName)
        IN /\ written.kind = "value"
           /\ Len(written.val) = Len(out_data.Cells)
           /\ \A i \in 1..Len(out_data.Cells) :
                 written.val[i] = NeighborsOf(out_data.Cells[i], out_data.Cells)

----------------------------------------------------------------------------
(* utils.py: add_neighbors_column on datasets whose rows are in any order *)

\* the list from its (k+1)-th element on, followed by its first k elements
Rotate(l, k) == SubSeq(l, k + 1, Len(l)) \o SubSeq(l, 1, k)

\* the list backwards
Reverse(l) == [k \in 1..Len(l) |-> l[Len(l) + 1 - k]]

\* The datasets: GridCells without up to MaxHoles cells, the rows rotated by
\* any number of places, forwards or backwards; no species.
InitNeighbors ==
    /\ \E holes \in SubsetsUpTo(SeqRange(GridCells), MaxHoles) :
       \E k \in 0..(Len(GridCells) - 1), backwards \in BOOLEAN :
          LET present(id) == id \notin holes
              rows == SelectSeq(Rotate(GridCells, k), present)
          IN grid_ids = IF backwards THEN Reverse(rows) ELSE rows
    /\ has_species = [s \in 1..NumSpecies |-> [k \in 1..Len(grid_ids) |-> FALSE]]
    /\ neighbors = <<>>
    /\ distances = [s \in 1..NumSpecies |-> <<>>]
    /\ starting_points = <<>>
    /\ sp = 0
    /\ oi = 0
    /\ queue = <<>>
    /\ visited = {}
    /\ dequeued = <<>>
    /\ pc = "neighbors"
    /\ GenIdle
    /\ TruncIdle
    /\ CodecIdle
    /\ DecodeIdle
    /\ AttachIdle
    /\ OutIdle
    /\ NbIdle
    /\ ParIdle

NextNeighbors == AddNeighborsColumn

SpecNeighbors == InitNeighbors /\ [][NextNeighbors]_vars

\* the coordinates the ids of the datasets are made from
CoordRange == -1..5

\* the <<column, row>> of an id
CoordsOf(id) ==
    CHOOSE cr \in CoordRange \X CoordRange : FormatCellId(cr[1], cr[2]) = id

\* v lies at a Moore offset from u
MooreOffset(u, v) ==
    /\ AbsDiff(CoordsOf(u)[1], CoordsOf(v)[1]) <= 1
    /\ AbsDiff(CoordsOf(u)[2], CoordsOf(v)[2]) <= 1
    /\ u # v

\* C16: for every cell id of the dataset, get_neighbors returns at most 8 ids,
\* each a member of the id set and at a Moore offset from the cell (column and
\* row each differ by at most 1, not both by 0); an id absent from the dataset
\* is in no neighbor list.
C16_NeighborsAreMoorePresent ==
    pc # "neighbors" =>
        \A k \in 1..Len(grid_ids) :
            /\ Len(neighbors[k]) <= 8
            /\ \A j \in 1..Len(neighbors[k]) :
                  /\ neighbors[k][j] \in SeqRange(grid_ids)
                  /\ MooreOffset(grid_ids[k], neighbors[k][j])

\* C16 witness: the neighbors column of a dataset with a hole next to the
\* middle cell, which has 7 neighbors left, while some other cell has fewer.
C16_Witness ==
    /\ pc # "neighbors"
    /\ FormatCellId(2, 1) \notin SeqRange(grid_ids)
    /\ Len(neighbors[RowOf(FormatCellId(1, 1))]) = 7
    /\ Len(neighbors[RowOf(FormatCellId(0, 0))]) = 3
    /\ neighbors[RowOf(FormatCellId(4, 1))] = <<>>

\* the <<column, row>> offsets up, down, left, right, up-left, down-right,
\* left-down, right-up
MooreOrder ==
    << <<0, -1>>, <<0, 1>>, <<-1, 0>>, <<1, 0>>, <<-1, -1>>, <<1, 1>>, <<-1, 1>>, <<1, -1>> >>

\* C17: the neighbor list of a cell is the subsequence, restricted to the ids
\* present in the dataset, of the candidates in the order up, down, left,
\* right, up-left, down-right, left-down, right-up; it does not depend on the
\* order of the rows of the dataset.
C17_NeighborOrder ==
    pc # "neighbors" =>
        \A k \in 1..Len(grid_ids) :
            LET cr == CoordsOf(grid_ids[k])
                candidates == [j \in 1..Len(MooreOrder) |->
                                  FormatCellId(cr[1] + MooreOrder[j][1],
                                               cr[2] + MooreOrder[j][2])]
                present(id) == id \in SeqRange(grid_ids)
            IN neighbors[k] = SelectSeq(candidates, present)

\* C17 witness: a dataset whose rows are not in grid order, complete, in which
\* the middle cell has its 8 neighbors in the order of the claim.
C17_Witness ==
    /\ pc # "neighbors"
    /\ Len(grid_ids) = Len(GridCells)
    /\ grid_ids # GridCells
    /\ grid_ids[1] = FormatCellId(4, 1)
    /\ neighbors[RowOf(FormatCellId(1, 1))] =
          <<FormatCellId(1, 0), FormatCellId(1, 2), FormatCellId(0, 1), FormatCellId(2, 1),
            FormatCellId(0, 0), FormatCellId(2, 2), FormatCellId(0, 2), FormatCellId(2, 0)>>

----------------------------------------------------------------------------
(* opl_data_generator.py: the SpeciesOrigins of generate_model_data_json *)

\* origins = dataset_gpd[dataset_gpd[f'has_{species_long}']]['grid_id'].tolist():
\* the ids of the flagged rows, in the order of the rows
SpeciesOrigins(s) ==
    LET flagged(k) == has_species[s][k]
        rows == SelectSeq([k \in 1..Len(grid_ids) |-> k], flagged)
    IN [i \in 1..Len(rows) |-> grid_ids[rows[i]]]

\* C18: for each species, the distance list of every cell, reached or not, is
\* as long as the species has origin cells, and position i of every list
\* refers to the i-th origin in dataset order, the order of SpeciesOrigins:
\* the origin holds 0 there and every cell a path joins to it its hop distance.
C18_ListsIndexedByOrigin ==
    pc = "done" =>
        \A s \in 1..NumSpecies :
            /\ \A k \in 1..Len(grid_ids) : Len(distances[s][k]) = Len(SpeciesOrigins(s))
            /\ \A i \in 1..Len(SpeciesOrigins(s)) :
                  /\ Entry(s, SpeciesOrigins(s)[i], i) = 0
                  /\ \A c \in SeqRange(grid_ids) :
                        Reachable(SpeciesOrigins(s)[i], c)
                            => Entry(s, c, i) = ShortestHops(SpeciesOrigins(s)[i], c)

\* C18 witness: a finished run in which the first species has two origins
\* that are not neighbors, the second species one, the last none, and the
\* detached cell, reached from no origin, has lists of lengths 2, 1 and 0.
C18_Witness ==
    /\ pc = "done"
    /\ Len(SpeciesOrigins(1)) = 2
    /\ Len(SpeciesOrigins(2)) = 1
    /\ SpeciesOrigins(NumSpecies) = <<>>
    /\ Entry(1, SpeciesOrigins(1)[2], 1) = 2
    /\ FormatCellId(4, 1) \in SeqRange(grid_ids)
    /\ ~Reachable(SpeciesOrigins(1)[1], FormatCellId(4, 1))
    /\ Len(distances[1][RowOf(FormatCellId(4, 1))]) = 2
    /\ Len(distances[2][RowOf(FormatCellId(4, 1))]) = 1
    /\ distances[NumSpecies][RowOf(FormatCellId(4, 1))] = <<>>

----------------------------------------------------------------------------
(* generate_model_data_json called again and again on one file system *)

\* the most calls of a run
MaxCalls == 3

\* one call generate_model_data_json()
CallGenerate ==
    /\ gpc = "calls"
    /\ runIdx < MaxCalls
    /\ cache' = generate_model_data_json(cache)[1]
    /\ cacheOps' = cacheOps \o generate_model_data_json(cache)[2]
    /\ runIdx' = runIdx + 1
    /\ UNCHANGED <<cache0, datFiles, gpc, data, mainData>>
    /\ UNCHANGED <<bfsVars, truncVars, codecVars, decodeVars, attachVars, outVars, nbVars, parVars>>

\* Any file system: the cache absent or left by an earlier run, each .dat file
\* absent or left complete by an earlier run; runIdx counts the calls.
InitRegenerate ==
    /\ cache \in {NoFile} \cup {CacheFile(d) : d \in Documents}
    /\ cache0 = cache
    /\ datFiles \in [1..Len(NClosestRuns) ->
                        {NoFile} \cup {DatFile(d, Len(DatSections)) : d \in Documents}]
    /\ gpc = "calls"
    /\ data = "unset"
    /\ mainData = "unset"
    /\ runIdx = 0
    /\ cacheOps = <<>>
    /\ BfsIdle
    /\ TruncIdle
    /\ CodecIdle
    /\ DecodeIdle
    /\ AttachIdle
    /\ OutIdle
    /\ NbIdle
    /\ ParIdle

NextRegenerate == CallGenerate

SpecRegenerate == InitRegenerate /\ [][NextRegenerate]_vars

\* C19: when opl_model_data.json exists at the first call, the calls only test
\* for the file (no dataset is loaded, nothing is built or written) and the
\* file keeps its content; and after any number of calls the cache is what
\* one call leaves.
C19_CacheReused ==
    (gpc = "calls" /\ runIdx >= 1) =>
        /\ cache = generate_model_data_json(cache0)[1]
        /\ cache0.exists =>
              /\ cache = cache0
              /\ cacheOps = [k \in 1..runIdx |-> "exists"]

\* C19 witness: three calls were made on a file system whose cache was left
\* by an earlier run, and the cache still holds the earlier document.
C19_Witness ==
    /\ gpc = "calls"
    /\ runIdx = 3
    /\ cache0 = CacheFile("earlier")
    /\ cache = CacheFile("earlier")
    /\ cacheOps = <<"exists", "exists", "exists">>

----------------------------------------------------------------------------
(* The cell blocks of a 3-D declaration, for the claims on parse_opl_3d_array *)

\* the block has exactly four rows of integer tokens
FourRowBlock(block) ==
    /\ Len(block) = 4
    /\ \A r \in 1..Len(block) : IntegerRow(block[r])

\* the integers of a block
BlockValues(block) ==
    [r \in 1..Len(block) |-> [t \in 1..Len(block[r]) |-> DigitsValue(block[r][t], 0)]]

\* the four-row blocks of a declaration, in file order, as integers
FourRowBlocksOf(d) ==
    LET blocks == SelectSeq(d.body, FourRowBlock)
    IN [k \in 1..Len(blocks) |-> BlockValues(blocks[k])]

\* C20: every per-cell element of the result of parse_opl_3d_array has exactly
\* four rows, and the result has one element per four-row cell block of the
\* declaration, in file order, whatever Species set the text declares.
C20_FourRowsPerCell ==
    (dpc = "parsed" /\ request.decoder = "3d") =>
        \A k \in 1..Len(solDecls) :
            FoundAt(k) =>
                /\ decodeResult.kind = "value"
                /\ \A i \in 1..Len(decodeResult.val) : Len(decodeResult.val[i]) = 4
                /\ decodeResult.val = FourRowBlocksOf(solDecls[k])

\* C20 witness: the text declares a Species set of three species and a con_o
\* array with a three-row block between two four-row blocks; the result has
\* the two four-row blocks.
C20_Witness ==
    /\ dpc = "parsed"
    /\ request = [decoder |-> "3d", name |-> ConOName]
    /\ Len(solDecls) = 2
    /\ solDecls[1].name = SpeciesName
    /\ Len(solDecls[1].body[1][1]) = 3
    /\ solDecls[2].body = <<FourRows, ThreeRows, FourRows>>
    /\ decodeResult.kind = "value"
    /\ Len(decodeResult.val) = 2
    /\ decodeResult.val[2] = << <<1, 0>>, <<0, 1>>, <<1, 1>>, <<0, 0>> >>

----------------------------------------------------------------------------
(* The first declaration of a name, for the claims on the decoders' search *)

\* declaration k is the first one of the text named as requested
FirstNamed(k) ==
    /\ solDecls[k].name = request.name
    /\ \A j \in 1..(k - 1) : solDecls[j].name # request.name

\* the contents of a set or 1-D declaration, in file order
ContentsOf(d) ==
    IF d.kind = "set" THEN d.body[1][1]
    ELSE [t \in 1..Len(d.body[1][1]) |-> DigitsValue(d.body[1][1][t], 0)]

\* C21 (as claimed): when the text holds one or more declarations with the
\* requested name, parse_opl_set and parse_opl_1d_array return the contents of
\* the first of them in file order, elements in file order; later declarations
\* of the name are ignored.
C21_FirstDeclarationWins ==
    (dpc = "parsed" /\ request.decoder \in {"set", "1d"}) =>
        \A k \in 1..Len(solDecls) :
            (FirstNamed(k) /\ solDecls[k].kind = request.decoder /\ WellFormed(solDecls[k]))
                => decodeResult = Value(ContentsOf(solDecls[k]))

----------------------------------------------------------------------------
(* utils.py: get_neighbors called on any identifier *)

\* col, row = map(int, grid_id.split('_')[1:]): the unpacking or int() raises
ParseIdentifier ==
    /\ npc = "parse"
    /\ IF ParseCellId(nb_id).ok
       THEN /\ nb_coords' = ParseCellId(nb_id).val
            /\ npc' = "collect"
       ELSE /\ nb_coords' = nb_coords
            /\ npc' = "raised"
    /\ UNCHANGED <<nb_id, nb_all, nb_result>>
    /\ UNCHANGED <<bfsVars, genVars, truncVars, codecVars, decodeVars, attachVars, outVars,
                   parVars>>

\* the loop over potential_neighbors_coords and the return
CollectNeighbors ==
    /\ npc = "collect"
    /\ nb_result' = get_neighbors(nb_id, nb_all).val
    /\ npc' = "returned"
    /\ UNCHANGED <<nb_id, nb_all, nb_coords>>
    /\ UNCHANGED <<bfsVars, genVars, truncVars, codecVars, decodeVars, attachVars, outVars,
                   parVars>>

\* the most fields an identifier has after its prefix
MaxFields == 3

\* the texts an identifier is made of
PrefixPool == {CellPrefix, <<"g", "r", "i", "d">>}

FieldPool ==
    {<<"0">>, <<"1">>, <<"-", "1">>, <<"1", "0">>, <<"0", "1">>, <<"+", "1">>,
     <<"-", "0">>, <<" ", "1">>, <<"a">>, <<"1", ".", "5">>, <<>>}

\* the lists of at most n fields
RECURSIVE FieldLists(_)
FieldLists(n) ==
    IF n = 0 THEN {<<>>}
    ELSE LET shorter == FieldLists(n - 1)
         IN shorter \cup {Append(l, f) : l \in shorter, f \in FieldPool}

\* the identifiers: a prefix and fields joined by `_`
IdPool == {Join(<<p>> \o fs, <<"_">>) : p \in PrefixPool, fs \in FieldLists(MaxFields)}

\* Any identifier, with the ids of the 3x3 grid or of two cells as the dataset.
InitIds ==
    /\ nb_id \in IdPool
    /\ nb_all \in {SeqRange(GridCells), {FormatCellId(0, 0), FormatCellId(-1, 0)}}
    /\ nb_coords = <<>>
    /\ nb_result = <<>>
    /\ npc = "parse"
    /\ BfsIdle
    /\ GenIdle
    /\ TruncIdle
    /\ CodecIdle
    /\ DecodeIdle
    /\ AttachIdle
    /\ OutIdle
    /\ ParIdle

NextIds ==
    \/ ParseIdentifier
    \/ CollectNeighbors

SpecIds == InitIds /\ [][NextIds]_vars

\* the text is a decimal integer: digits, possibly after a minus sign
IsIntegerText(f) ==
    \/ AllDigits(f)
    \/ (f # <<>> /\ Head(f) = "-" /\ AllDigits(Tail(f)))

\* the text is the decimal numeral of an integer: no leading zero, no -0
IsNumeral(f) ==
    /\ IsIntegerText(f)
    /\ LET digits == IF Head(f) = "-" THEN Tail(f) ELSE f
       IN /\ (Head(digits) = "0" => Len(digits) = 1)
          /\ (Head(f) = "-" => Head(digits) # "0")

\* the fields of an identifier, the prefix first
FieldsOf(id) == Split(id, "_")

\* the identifier matches cell_<int>_<int>
MatchesCellPattern(id) ==
    /\ Len(FieldsOf(id)) = 3
    /\ FieldsOf(id)[1] = CellPrefix
    /\ IsIntegerText(FieldsOf(id)[2])
    /\ IsIntegerText(FieldsOf(id)[3])

\* C22 (as claimed): get_neighbors fails, and returns no neighbor list, for
\* every identifier that does not match cell_<int>_<int>: another prefix, a
\* column or row field that is no integer, or a number of fields other than two.
C22_MalformedIdentifierFails ==
    ~MatchesCellPattern(nb_id) => npc \notin {"collect", "returned"}

\* C23 (as claimed): for every valid cell id, cell_<col>_<row> with integer,
\* possibly negative, col and row, parsing the id as get_neighbors does and
\* formatting the pair back as cell_<col>_<row> gives the id.
C23_IdRoundTripAsClaimed ==
    (npc \in {"collect", "returned"} /\ MatchesCellPattern(nb_id)) =>
        FormatCellId(nb_coords[1], nb_coords[2]) = nb_id

\* C23 (amended): for every cell id cell_<col>_<row> whose col and row are
\* decimal numerals (an optional minus sign and digits, without leading zeros
\* and not -0), the id is parsed and formatting the parsed pair back gives the id.
C23_IdRoundTrip ==
    (npc # "parse" /\ MatchesCellPattern(nb_id)
        /\ IsNumeral(FieldsOf(nb_id)[2]) /\ IsNumeral(FieldsOf(nb_id)[3])) =>
        /\ npc \in {"collect", "returned"}
        /\ FormatCellId(nb_coords[1], nb_coords[2]) = nb_id

\* C23 witness: the id cell_-1_10 was parsed as column -1 and row 10.
C23_Witness ==
    /\ npc = "returned"
    /\ nb_id = <<"c", "e", "l", "l", "_", "-", "1", "_", "1", "0">>
    /\ nb_coords = <<-1, 10>>
    /\ FormatCellId(nb_coords[1], nb_coords[2]) = nb_id

----------------------------------------------------------------------------
(* utils.py: the traversals of add_species_distance_column, one process per
   (species, origin), all started after the distance columns were created *)

\* the slot of every origin is the first one
FirstSlot(i) == 1

\* the index i of enumerate(starting_points) in ...iloc[0][i] = current_dist
OwnSlot(i) == i

RECURSIVE RunTraversal(_, _, _, _, _)
\* the loop `while queue:` run to its end on one distance column, over the
\* neighbors column adj
RunTraversal(adj, column, slot, q, vis) ==
    IF q = <<>> THEN column
    ELSE LET current == PopLeft(q)[1]
             row == RowOf(current[1])
             after == VisitNeighbors(adj[row], current[2], PopLeft(q)[2], vis)
         IN RunTraversal(adj, [column EXCEPT ![row][slot] = current[2]], slot,
                         after[1], after[2])

RECURSIVE RunOrigins(_, _, _, _)
\* the loop over enumerate(starting_points) from index i on, one run after another
RunOrigins(adj, column, origins, i) ==
    IF i > Len(origins) THEN column
    ELSE RunOrigins(adj,
                    RunTraversal(adj, column, OwnSlot(i), << <<origins[i], 0>> >>,
                                 {origins[i]}),
                    origins, i + 1)

\* the distance column of species s after the body of the species loop, over
\* the neighbors column adj
ColumnOver(adj, s) ==
    RunOrigins(adj, InitialDistanceColumn(Len(StartingPoints(s)), Len(grid_ids)),
               StartingPoints(s), 1)

\* the same over the neighbors column of the dataset
SequentialColumn(s) == ColumnOver(neighbors, s)

\* the runs: <<species index, origin index>>
Runs ==
    UNION {{<<s, i>> : i \in 1..Len(StartingPoints(s))} : s \in 1..NumSpecies}

\* queue.popleft() and the store of current_dist, by one run
ParDequeue ==
    \E r \in Runs :
        /\ par_pc[r] = "while"
        /\ par_queue[r] # <<>>
        /\ LET current == PopLeft(par_queue[r])[1]
           IN /\ par_current' = [par_current EXCEPT ![r] = current]
              /\ distances' =
                    [distances EXCEPT ![r[1]][RowOf(current[1])][OwnSlot(r[2])] = current[2]]
        /\ par_queue' = [par_queue EXCEPT ![r] = PopLeft(par_queue[r])[2]]
        /\ par_pc' = [par_pc EXCEPT ![r] = "visit"]
        /\ UNCHANGED par_visited
        /\ UNCHANGED <<grid_ids, has_species, neighbors, starting_points, sp, oi, queue,
                       visited, dequeued, pc>>
        /\ UNCHANGED <<genVars, truncVars, codecVars, decodeVars, attachVars, outVars, nbVars>>

\* the loop over the neighbors of the dequeued cell, by one run
ParVisit ==
    \E r \in Runs :
        /\ par_pc[r] = "visit"
        /\ LET after == VisitNeighbors(neighbors[RowOf(par_current[r][1])], par_current[r][2],
                                       par_queue[r], par_visited[r])
           IN /\ par_queue' = [par_queue EXCEPT ![r] = after[1]]
              /\ par_visited' = [par_visited EXCEPT ![r] = after[2]]
        /\ par_pc' = [par_pc EXCEPT ![r] = "while"]
        /\ UNCHANGED par_current
        /\ UNCHANGED bfsVars
        /\ UNCHANGED <<genVars, truncVars, codecVars, decodeVars, attachVars, outVars, nbVars>>

\* `while queue:` ends, in one run
ParExit ==
    \E r \in Runs :
        /\ par_pc[r] = "while"
        /\ par_queue[r] = <<>>
        /\ par_pc' = [par_pc EXCEPT ![r] = "finished"]
        /\ UNCHANGED <<par_queue, par_visited, par_current>>
        /\ UNCHANGED bfsVars
        /\ UNCHANGED <<genVars, truncVars, codecVars, decodeVars, attachVars, outVars, nbVars>>

\* the cells of the datasets the concurrent runs work on
MaxParCells == 5

\* The datasets: the first MaxParCells cells of GridCells without up to MaxHoles
\* cells, origins as in InitBFS; the neighbors column and the zero-filled
\* distance column of every species exist, every run is at its first dequeue.
InitPar ==
    /\ \E holes \in SubsetsUpTo(SeqRange(GridCells), MaxHoles) :
          LET present(id) == id \notin holes
          IN grid_ids = SelectSeq(SubSeq(GridCells, 1, MaxParCells), present)
    /\ \E rows \in SubsetsUpTo(1..Len(grid_ids), MaxOrigins) :
          has_species = [s \in 1..NumSpecies |->
                            [k \in 1..Len(grid_ids) |->
                                k \in rows /\ Rank(rows, k) >= s - 1]]
    /\ neighbors = add_neighbors_column(grid_ids)
    /\ distances = [s \in 1..NumSpecies |->
                       InitialDistanceColumn(Len(StartingPoints(s)), Len(grid_ids))]
    /\ starting_points = <<>>
    /\ sp = 0
    /\ oi = 0
    /\ queue = <<>>
    /\ visited = {}
    /\ dequeued = <<>>
    /\ pc = "parallel"
    /\ par_queue = [r \in Runs |-> << <<StartingPoints(r[1])[r[2]], 0>> >>]
    /\ par_visited = [r \in Runs |-> {StartingPoints(r[1])[r[2]]}]
    /\ par_current = [r \in Runs |-> <<>>]
    /\ par_pc = [r \in Runs |-> "while"]
    /\ GenIdle
    /\ TruncIdle
    /\ CodecIdle
    /\ DecodeIdle
    /\ AttachIdle
    /\ OutIdle
    /\ NbIdle

NextPar ==
    \/ ParDequeue
    \/ ParVisit
    \/ ParExit

SpecPar == InitPar /\ [][NextPar]_vars

\* a step of run r: only r's queue, visited set and current cell change, and of
\* the distance lists only slot r[2] of species r[1]
OwnStateStep(r) ==
    /\ \A o \in Runs \ {r} :
          /\ par_queue'[o] = par_queue[o]
          /\ par_visited'[o] = par_visited[o]
          /\ par_current'[o] = par_current[o]
          /\ par_pc'[o] = par_pc[o]
    /\ \A s \in 1..NumSpecies, k \in 1..Len(grid_ids) :
       \A j \in 1..Len(distances[s][k]) :
          <<s, j>> # r => distances'[s][k][j] = distances[s][k][j]
    /\ neighbors' = neighbors

AllFinished == \A r \in Runs : par_pc[r] = "finished"

\* C24: when the traversals of all origins of all species run as processes
\* whose steps interleave in any order, every step changes only the queue, the
\* visited set and the (species, origin index) distance slots of the run that
\* takes it and leaves the adjacency alone, and once all runs have finished the
\* distance tables are those of the runs made one after another.
C24_ConcurrentRunsAgree ==
    /\ [](AllFinished => distances = [s \in 1..NumSpecies |-> SequentialColumn(s)])
    /\ [][\E r \in Runs : OwnStateStep(r)]_vars

\* C24 witness: three runs, two of them of the same species, have finished and
\* left different distances in the two slots of one cell.
C24_Witness ==
    /\ AllFinished
    /\ Cardinality(Runs) = 3
    /\ distances = [s \in 1..NumSpecies |-> SequentialColumn(s)]
    /\ \E k \in 1..Len(grid_ids) : distances[1][k][1] # distances[1][k][2]

\* The step-by-step loops of add_species_distance_column end with the columns
\* that RunOrigins computes.
StepwiseIsSequential ==
    pc = "done" => distances = [s \in 1..NumSpecies |-> SequentialColumn(s)]

----------------------------------------------------------------------------
(* utils.py: add_species_distance_column over neighbor lists in any order *)

\* the orders of one list
OrdersOf(list) ==
    {p \in DistinctLists(SeqRange(list), Len(list)) : Len(p) = Len(list)}

RECURSIVE PermutedColumns(_)
\* the neighbors columns whose lists are those of adj, each in some order
PermutedColumns(adj) ==
    IF adj = <<>> THEN {<<>>}
    ELSE {<<p>> \o rest : p \in OrdersOf(Head(adj)), rest \in PermutedColumns(Tail(adj))}

\* the cells of the datasets whose neighbor lists are put in every order
MaxPermCells == 4

\* The datasets: the first MaxPermCells cells of GridCells without up to
\* MaxHoles cells, origins as in InitBFS, the neighbor list of every cell in
\* any order; add_species_distance_column is about to start.
InitPermuted ==
    /\ \E holes \in SubsetsUpTo(SeqRange(GridCells), MaxHoles) :
          LET present(id) == id \notin holes
          IN grid_ids = SelectSeq(SubSeq(GridCells, 1, MaxPermCells), present)
    /\ \E rows \in SubsetsUpTo(1..Len(grid_ids), MaxOrigins) :
          has_species = [s \in 1..NumSpecies |->
                            [k \in 1..Len(grid_ids) |->
                                k \in rows /\ Rank(rows, k) >= s - 1]]
    /\ neighbors \in PermutedColumns(add_neighbors_column(grid_ids))
    /\ distances = [s \in 1..NumSpecies |-> <<>>]
    /\ starting_points = <<>>
    /\ sp = 1
    /\ oi = 0
    /\ queue = <<>>
    /\ visited = {}
    /\ dequeued = <<>>
    /\ pc = "species"
    /\ GenIdle
    /\ TruncIdle
    /\ CodecIdle
    /\ DecodeIdle
    /\ AttachIdle
    /\ OutIdle
    /\ NbIdle
    /\ ParIdle

NextPermuted ==
    \/ SpeciesLoop
    \/ OriginLoop
    \/ BFSStep
    \/ BFSExit

SpecPermuted == InitPermuted /\ [][NextPermuted]_vars

\* C25: whatever the order of every cell's neighbor list, the traversals end
\* with the distances they give over the lists in the order of get_neighbors:
\* the distance of every cell from every origin is the same.
C25_NeighborOrderIrrelevant ==
    pc = "done" =>
        distances = [s \in 1..NumSpecies |-> ColumnOver(add_neighbors_column(grid_ids), s)]

\* C25 witness: the traversals ended over a neighbor list that is not in the
\* order of get_neighbors, and a cell two hops from an origin was reached.
C25_Witness ==
    /\ pc = "done"
    /\ \E k \in 1..Len(grid_ids) :
          /\ Len(neighbors[k]) >= 3
          /\ neighbors[k] # add_neighbors_column(grid_ids)[k]
          /\ has_species[1][k]
    /\ \E k \in 1..Len(grid_ids) : distances[1][k][1] = 2

----------------------------------------------------------------------------
(* opl_data_generator.py: generate_opl_dat_file interrupted *)

\* the process ends inside the `with` block. An exception leaves the block
\* through f.close(), so the file holds what was written; a killed process
\* loses the text still buffered in f, and the file opened with 'w' stays empty.
Crash ==
    /\ opc = "write"
    /\ out_text' \in {out_text, <<>>}
    /\ opc' = "crashed"
    /\ UNCHANGED <<out_data, out_n, out_prev, out_idx>>
    /\ UNCHANGED <<bfsVars, genVars, truncVars, codecVars, decodeVars, attachVars, nbVars, parVars>>

\* the content of an output file left by an earlier run
OldFileText == write_opl_set(CellsName, <<FormatCellId(0, 0)>>)

\* The documents: Cells any list of distinct ids, every array complete; the
\* output file does not exist or is empty (<<>>), or holds OldFileText.
InitCrash ==
    /\ \E cells \in DistinctLists(CellPool, MaxCells) :
          out_data = DocumentOf(cells, cells, cells, {}, Len(SpeciesList))
    /\ out_n \in SeqRange(NClosestRuns)
    /\ out_prev \in {<<>>, OldFileText}
    /\ out_text = out_prev
    /\ out_idx = 0
    /\ opc = "open"
    /\ BfsIdle
    /\ GenIdle
    /\ TruncIdle
    /\ CodecIdle
    /\ DecodeIdle
    /\ AttachIdle
    /\ NbIdle
    /\ ParIdle

NextCrash ==
    \/ OpenOutput
    \/ WriteDeclaration
    \/ CloseOutput
    \/ Crash

SpecCrash == InitCrash /\ [][NextCrash]_vars

\* the text of the nine declarations, the complete file
CompleteText(doc, n) ==
    Concat([k \in 1..Len(DatSections) |-> DeclarationText(doc, n, k)])

\* C26 (as claimed): when generate_opl_dat_file is interrupted at any point,
\* the file at the output path has the content it had before the call or the
\* complete new content, never a part of the new content.
C26_NoPartialFile ==
    opc = "crashed" => out_text \in {out_prev, CompleteText(out_data, out_n)}

\* The completed call leaves the complete text.
CompletedFileIsWhole ==
    opc = "done" => out_text = CompleteText(out_data, out_n)

----------------------------------------------------------------------------
(* utils.py: the adjacency as a relation *)

\* the row of a neighbor list holds the id
Lists(k, id) == \E j \in 1..Len(neighbors[k]) : neighbors[k][j] = id

----------------------------------------------------------------------------
(* utils.py: add_species_distance_column keeps running *)

\* The program is sequential and nothing stops it: when the queue is not empty
\* the next iteration of `while queue:` is executed.
SpecBFSFair == InitBFS /\ [][NextBFS]_vars /\ WF_vars(BFSStep)

\* the ids of the entries of a queue
QueuedIds(q) == [k \in 1..Len(q) |-> q[k][1]]

\* no element occurs twice in the list
NoRepeat(l) == \A i \in 1..Len(l), j \in 1..Len(l) : l[i] = l[j] => i = j

\* every id the running traversal has put in its queue, taken out or not
EnqueuedIds == dequeued \o QueuedIds(queue)

\* an iteration of `while queue:` appends only ids that were not visited, and
\* they are visited once it is over
EnqueuesOnlyNewlyVisited ==
    (pc = "bfs" /\ pc' = "bfs" /\ dequeued' # dequeued) =>
        \A k \in Len(queue)..Len(queue') :
            /\ queue'[k][1] \notin visited
            /\ queue'[k][1] \in visited'

\* C28: in every run of the traversal an id is in the visited set when it
\* enters the queue and was not before, no id enters or leaves the queue twice,
\* the number of dequeue steps never exceeds the number of cells, and the queue
\* of a started run eventually is empty.
C28_RunTerminates ==
    /\ [](pc = "bfs" =>
            /\ NoRepeat(EnqueuedIds)
            /\ SeqRange(EnqueuedIds) = visited
            /\ Len(dequeued) <= Len(grid_ids))
    /\ [][EnqueuesOnlyNewlyVisited]_vars
    /\ ((pc = "bfs" /\ queue # <<>>) ~> (pc = "bfs" /\ queue = <<>>))

\* C28 witness: a run ended with an empty queue after nine dequeue steps.
C28_Witness ==
    /\ pc = "bfs"
    /\ queue = <<>>
    /\ Len(dequeued) = 9

----------------------------------------------------------------------------
(* opl_parser.py: the name a decoder looks for *)

\* declaration j has a longer name that ends with the requested name
SuffixNamed(j) ==
    /\ solDecls[j].name # request.name
    /\ EndsWith(solDecls[j].name, request.name)

\* C29 (as claimed): a decoder returns only the body of a declaration whose
\* name is exactly the requested name. When no declaration has that name but
\* one has a name ending with it, the result is no-data; and when such a
\* declaration comes before the real one, the set and 1-D decoders still
\* return the contents of the real one.
C29_ExactNameOnly ==
    dpc = "parsed" =>
        /\ ((\A k \in 1..Len(solDecls) : solDecls[k].name # request.name)
              /\ (\E j \in 1..Len(solDecls) : SuffixNamed(j)))
            => decodeResult = NoData
        /\ \A k \in 1..Len(solDecls) :
              (/\ FirstNamed(k)
               /\ \E j \in 1..(k - 1) : SuffixNamed(j)
               /\ request.decoder \in {"set", "1d"}
               /\ solDecls[k].kind = request.decoder
               /\ WellFormed(solDecls[k]))
                  => decodeResult = Value(ContentsOf(solDecls[k]))

----------------------------------------------------------------------------
(* opl_data_generator.py, opl_parser.py: the Neighbors declaration written and read *)

====
